---------------------------- MODULE Spec2Model ----------------------------
(***************************************************************************)
(* Verification model of the ESPHome UPS components:                        *)
(*   - the NUT TCP server (components/nut_server/nut_server.cpp),           *)
(*   - the UPS data record and the vendor decoders that fill it             *)
(*     (components/ups_hid, components/nut_ups).                            *)
(*                                                                         *)
(* Encodings used throughout:                                              *)
(*   - a float is an integer number of tenths (85.0 is 850); NaN is the     *)
(*     value NaN below and is only ever tested with IsNaN or through the    *)
(*     comparison helpers, which are false on NaN as IEEE comparisons are;  *)
(*   - a command line is the tuple of its space-separated words;            *)
(*   - a reply is the exact text handed to send().                          *)
(***************************************************************************)
EXTENDS Integers, Sequences, FiniteSets, TLC

VARIABLES
  clients_,      \* NutServerComponent::clients_ : slot -> NutClient
  openSockets,   \* client socket descriptors currently open in the OS
  resetSockets,  \* open descriptors on which send() has failed: the peer is gone
  clock,         \* millis()
  loop_now,      \* cleanup_inactive_clients: the local `now`
  loop_pc,       \* cleanup_inactive_clients: "idle" | "scan"
  password_,     \* NutServerComponent::password_ (configuration)
  list_var,      \* handle_list_var in progress: the variable reached and its response
  connected_,    \* UpsHidComponent::connected_
  ups_data_,     \* UpsHidComponent::ups_data_
  active_protocol_, \* the decoder detection chose, "none" while simulating
  sensors_,      \* sensor sinks: the value each last had published, NaN for none
  failed_logins, \* history: slot -> failed authentication attempts of its connection
  device_connected_, \* device_connected_ of the component that owns the USB device
  usb_device_,   \* usb_device_: dev_hdl, client_hdl (is it non-null), ep_in, ep_out (is it non-zero)
  transfer_,     \* the transfer call in progress: its position, resources and waits
  consecutive_failures_, \* consecutive_failures_
  last_successful_read_, \* last_successful_read_, a millis() value
  component_failed, \* Component::is_failed(), set by mark_failed()
  detect_failures, \* history: update cycles in a row whose detection found nothing
  protocol_error_limiter_, \* ErrorRateLimit protocol_error_limiter_
  admitted, \* history: the millis() of the latest MAX_BURST + 1 admitted events
  vendor_registry, \* ProtocolFactory::get_vendor_registry(): vendor id -> ProtocolInfo list
  fallback_registry, \* ProtocolFactory::get_fallback_registry()
  usb_mutex_, \* usb_mutex_: the task holding it, "free" when none does
  task_call, \* per task, the USB call it is in and how far it has got
  data_mutex_, \* data_mutex_: the task holding it, "free" when none does
  ups_data_cache_, \* ups_data_cache_: data_valid, data and the holder of its mutex
  clients_mutex_, \* clients_mutex_: the task holding it, "free" when none does
  server_running_, \* NutServerComponent::server_running_
  server_task_handle_, \* the NUT server task: "running", "exited" or "deleted"
  task_step, \* per task, the function it is in and the statement it has reached
  last           \* observation of the most recent step

nutVars == <<clients_, openSockets, resetSockets, clock, loop_now, loop_pc, password_, list_var, failed_logins>>
coreVars == <<connected_, ups_data_, active_protocol_, sensors_>>
lockVars == <<data_mutex_, ups_data_cache_, clients_mutex_, server_running_, server_task_handle_, task_step>>
usbVars == <<device_connected_, usb_device_, transfer_, consecutive_failures_,
             last_successful_read_, component_failed, detect_failures, protocol_error_limiter_, admitted, vendor_registry, fallback_registry, usb_mutex_, task_call, lockVars>>
vars == <<clients_, openSockets, resetSockets, clock, loop_now, loop_pc, password_, list_var,
          connected_, ups_data_, active_protocol_, sensors_, failed_logins,
          device_connected_, usb_device_, transfer_, consecutive_failures_,
          last_successful_read_, component_failed, detect_failures, protocol_error_limiter_, admitted, vendor_registry, fallback_registry, usb_mutex_, task_call,
          data_mutex_, ups_data_cache_, clients_mutex_, server_running_, server_task_handle_, task_step, last>>

-----------------------------------------------------------------------------
(* Bounds of the model *)

MaxClients == 1        \* max_clients_ (configuration)
MaxTicks == 2          \* how many times the clock advances
MaxEventTime == 10002  \* the latest millis() of a rate-limited event
MaxEvents == 5         \* events counted by the rate limiter in one window
MaxFailures == 6       \* how many failed reads in a row are followed
TickMs == 20000        \* milliseconds per clock advance

(* Program constants *)

MAX_LOGIN_ATTEMPTS == 3
CLIENT_TIMEOUT_MS == 30000

username_ == "admin"
ups_name_ == "ups"
SecretPassword == "secret"

Slots == 1..MaxClients
Fds == 0..MaxClients

-----------------------------------------------------------------------------
(* Floats *)

NaN == 0 - (2^30)
IsNaN(x) == x = NaN
FGt(x, y) == ~IsNaN(x) /\ x > y
FGe(x, y) == ~IsNaN(x) /\ x >= y
FLt(x, y) == ~IsNaN(x) /\ x < y
\* uint32_t: (a - b) > limit, the subtraction wrapping modulo 2^32
U32SubGt(a, b, limit) ==
  IF a >= b THEN a - b > limit
  ELSE ((b - a) + limit) \div 2 <= 2147483647
\* static_cast<int>(float): truncation toward zero of a value in tenths
CastInt(x) == IF x >= 0 THEN x \div 10 ELSE 0 - ((0 - x) \div 10)
\* "%.1f"
Fmt1(x) == IF x >= 0 THEN ToString(x \div 10) \o "." \o ToString(x % 10)
           ELSE "-" \o ToString((0 - x) \div 10) \o "." \o ToString((0 - x) % 10)


-----------------------------------------------------------------------------
(* UPS data record and the accessors the NUT server reads it through *)

UpsStatusFlags == {"ONLINE", "ON_BATTERY", "LOW_BATTERY", "REPLACE_BATTERY",
                   "CHARGING", "FAULT", "OVERLOAD", "CALIBRATING", "OFF"}

UpsProtocols == {"PROTOCOL_UNKNOWN", "PROTOCOL_APC_SMART", "PROTOCOL_APC_HID",
                 "PROTOCOL_CYBERPOWER_HID", "PROTOCOL_GENERIC_HID"}

\* struct UpsData, default member initialisers
UpsData ==
  [ battery_level |-> NaN, input_voltage |-> NaN, output_voltage |-> NaN,
    load_percent |-> NaN, runtime_minutes |-> NaN, frequency |-> NaN,
    status_flags |-> {}, model |-> "", manufacturer |-> "",
    serial_number |-> "", firmware_version |-> "",
    detected_protocol |-> "PROTOCOL_UNKNOWN",
    battery_voltage |-> NaN, battery_voltage_nominal |-> NaN,
    input_voltage_nominal |-> NaN, input_transfer_low |-> NaN,
    input_transfer_high |-> NaN, ups_realpower_nominal |-> NaN,
    output_voltage_nominal |-> NaN, apparent_power_nominal |-> NaN ]

\* UpsHidComponent::setup, simulation branch: the record a simulated UPS starts with
SimulatedData ==
  [ UpsData EXCEPT !.detected_protocol = "PROTOCOL_APC_SMART",
      !.manufacturer = "Simulated", !.model = "Virtual UPS Pro",
      !.serial_number = "SIM123456789", !.firmware_version = "1.0.0-SIM",
      !.battery_level = 850, !.input_voltage = 1200, !.output_voltage = 1180,
      !.load_percent = 450, !.runtime_minutes = 350, !.frequency = 600,
      !.status_flags = {"ONLINE", "CHARGING"} ]

\* get_ups_data(): by-value copy of the shared record
get_ups_data == ups_data_
is_connected == connected_
get_battery_level == ups_data_.battery_level
get_load_percent == ups_data_.load_percent
get_runtime_minutes == ups_data_.runtime_minutes
get_input_voltage == ups_data_.input_voltage
get_output_voltage == ups_data_.output_voltage
HasFlag(f) == f \in ups_data_.status_flags

\* UpsData::reset
UpsData_reset(d) ==
  [d EXCEPT !.battery_level = NaN, !.input_voltage = NaN, !.output_voltage = NaN,
            !.load_percent = NaN, !.runtime_minutes = NaN, !.frequency = NaN,
            !.status_flags = {}, !.model = "", !.manufacturer = "",
            !.serial_number = "", !.firmware_version = "",
            !.detected_protocol = "PROTOCOL_UNKNOWN",
            !.battery_voltage = NaN, !.battery_voltage_nominal = NaN,
            !.input_voltage_nominal = NaN, !.input_transfer_low = NaN,
            !.input_transfer_high = NaN, !.ups_realpower_nominal = NaN]

\* UpsData::is_valid
is_valid(d) ==
  \/ ~IsNaN(d.battery_level)
  \/ ~IsNaN(d.input_voltage)
  \/ ~IsNaN(d.output_voltage)
  \/ d.status_flags # {}

-----------------------------------------------------------------------------
(* Decoders. A HID report is the sequence of its bytes, the report id first, and
   the empty sequence stands for a report the device did not return. The record
   fields a decoder writes that UpsData above does not carry (battery_status,
   battery_runtime_low, ups_test_result, the timers) are left out. *)

\* read_hid_report: the buffer a read of the report fills, its id first, from
\* the bytes the device answers with; empty when the read fails
read_hid_report(report_id, answer) ==
  IF answer = << >> THEN << >> ELSE <<report_id>> \o answer
\* report.data[k], k counted from 0
Byte(report, k) == report[k + 1]
\* (b & mask) != 0 for a mask of one bit
Bit(b, mask) == (b \div mask) % 2 = 1
FlagIf(cond, f) == IF cond THEN {f} ELSE {}
Float(n) == n * 10

\* ApcHidProtocol::parse_power_summary_report (report 0x0C)
ApcHid_parse_power_summary_report(report, data) ==
  IF Len(report) < 2 THEN data
  ELSE LET d1 == [data EXCEPT !.battery_level = Float(Byte(report, 1))]
           runtime_raw == IF Len(report) >= 4
                          THEN Byte(report, 2) + Byte(report, 3) * 256 ELSE 0
       IN  IF Len(report) >= 4 /\ runtime_raw > 0 /\ runtime_raw < 65535
           THEN [d1 EXCEPT !.runtime_minutes = Float(runtime_raw)]
           ELSE d1

\* ApcHidProtocol::parse_present_status_report (report 0x16)
ApcHid_parse_present_status_report(report, data) ==
  IF Len(report) < 2 THEN data
  ELSE LET packed_status == Byte(report, 1)
           charging == Bit(packed_status, 1)
           discharging == Bit(packed_status, 2)
           ac_present == Bit(packed_status, 4)
           battery_present == Bit(packed_status, 8)
           below_capacity == Bit(packed_status, 16)
           shutdown_imminent == Bit(packed_status, 32)
           need_replacement == Bit(packed_status, 128)
           overload == Len(report) >= 3 /\ Bit(Byte(report, 2), 1)
           power == IF ac_present /\ ~discharging THEN {"ONLINE"}
                    ELSE IF discharging \/ ~ac_present THEN {"ON_BATTERY"} ELSE {}
       IN  [data EXCEPT !.status_flags =
              power \cup FlagIf(charging, "CHARGING")
                    \cup FlagIf(below_capacity \/ shutdown_imminent, "LOW_BATTERY")
                    \cup FlagIf(need_replacement \/ ~battery_present, "FAULT")
                    \cup FlagIf(overload, "OVERLOAD")]

\* ApcHidProtocol::parse_load_report (report 0x50)
ApcHid_parse_load_report(report, data) ==
  IF Len(report) < 2 THEN data
  ELSE [data EXCEPT !.load_percent = Float(Byte(report, 1))]

\* ApcHidProtocol::parse_input_voltage_report (report 0x31)
ApcHid_parse_input_voltage_report(report, data) ==
  IF Len(report) < 3 THEN data
  ELSE [data EXCEPT !.input_voltage = Float(Byte(report, 1) + Byte(report, 2) * 256)]

\* whether the device returned any of the reports the decoder asks for
AnyRead(answers) ==
  \E k \in {"summary", "battery", "status", "voltage", "load"} : answers[k] # << >>

ApcHid_identify(data) == [data EXCEPT !.manufacturer = "APC", !.model = "Back-UPS ES"]

\* ApcHidProtocol::read_data: `if (read_hid_report(0x0C, r)) parse_...(r, data)`,
\* and the same for 0x16, 0x31 and 0x50
ApcHid_read_power_summary(answer, data) ==
  IF answer = << >> THEN data
  ELSE ApcHid_parse_power_summary_report(read_hid_report(12, answer), data)
ApcHid_read_present_status(answer, data) ==
  IF answer = << >> THEN data
  ELSE ApcHid_parse_present_status_report(read_hid_report(22, answer), data)
ApcHid_read_input_voltage(answer, data) ==
  IF answer = << >> THEN data
  ELSE ApcHid_parse_input_voltage_report(read_hid_report(49, answer), data)
ApcHid_read_load_default(answer, data) ==
  IF answer = << >> THEN [data EXCEPT !.load_percent = Float(0)]
  ELSE ApcHid_parse_load_report(read_hid_report(80, answer), data)
ApcHid_read_load(answer, data) ==
  IF answer = << >> THEN data
  ELSE ApcHid_parse_load_report(read_hid_report(80, answer), data)

\* ApcHidProtocol::read_data, for a device that returns at most the reports 0x0C
\* (answers.summary), 0x16 (answers.status), 0x31 (answers.voltage) and 0x50
\* (answers.load)
ApcHid_read_data(answers, data) ==
  [ data |->
      [ ApcHid_read_load(answers.load,
          ApcHid_read_input_voltage(answers.voltage,
            ApcHid_read_present_status(answers.status,
              ApcHid_read_power_summary(answers.summary, ApcHid_identify(data)))))
        EXCEPT !.frequency = NaN ],
    success |-> answers.summary # << >> \/ answers.status # << >>
                  \/ answers.voltage # << >> \/ answers.load # << >> ]

\* CyberPowerProtocol::parse_battery_runtime_report (report 0x08)
CyberPower_parse_battery_runtime_report(report, data) ==
  IF Len(report) < 4 THEN data
  ELSE LET battery_percentage == Byte(report, 1)
           runtime_minutes == Byte(report, 2) + Byte(report, 3) * 256
       IN  [data EXCEPT
              !.battery_level = Float(IF battery_percentage > 100 THEN 100
                                      ELSE battery_percentage),
              !.runtime_minutes = Float(runtime_minutes)]

\* CyberPowerProtocol::parse_present_status_report (report 0x0b)
CyberPower_parse_present_status_report(report, data) ==
  IF Len(report) < 2 THEN data
  ELSE LET status_byte == Byte(report, 1)
           ac_present == Bit(status_byte, 1)
           charging == Bit(status_byte, 2)
           discharging == Bit(status_byte, 4)
           low_battery == Bit(status_byte, 8)
           time_limit_expired == Bit(status_byte, 32)
       IN  [data EXCEPT !.status_flags =
              FlagIf(ac_present, "ONLINE")
                \cup FlagIf(~ac_present \/ discharging, "ON_BATTERY")
                \cup FlagIf(charging, "CHARGING")
                \cup FlagIf(low_battery \/ time_limit_expired, "LOW_BATTERY")]

\* CyberPowerProtocol::parse_input_voltage_report (report 0x0f)
CyberPower_parse_input_voltage_report(report, data) ==
  IF Len(report) < 3 THEN data
  ELSE [data EXCEPT !.input_voltage = Float(Byte(report, 1) + Byte(report, 2) * 256)]

\* CyberPowerProtocol::parse_load_percent_report (report 0x13)
CyberPower_parse_load_percent_report(report, data) ==
  IF Len(report) < 2 THEN data
  ELSE [data EXCEPT !.load_percent = Float(Byte(report, 1))]

\* GenericHidProtocol::parse_power_summary (report 0x0C)
Generic_parse_power_summary(report, ups_data) ==
  LET battery == Byte(report, 1)
      d1 == IF Len(report) < 2 THEN ups_data
            ELSE IF battery <= 100 THEN [ups_data EXCEPT !.battery_level = Float(battery)]
            ELSE IF battery <= 200 THEN [ups_data EXCEPT !.battery_level = Float(battery) \div 2]
            ELSE ups_data
      runtime == IF Len(report) >= 4 THEN Byte(report, 2) + Byte(report, 3) * 256 ELSE 0
  IN  IF Len(report) >= 4 /\ runtime > 0 /\ runtime < 10000
      THEN [d1 EXCEPT !.runtime_minutes = Float(runtime)]
      ELSE d1

\* GenericHidProtocol::parse_battery_status (report 0x06)
Generic_parse_battery_status(report, ups_data) ==
  LET status == Byte(report, 1)
      d1 == IF Len(report) >= 2 /\ status # 255 /\ status # 0
            THEN [ups_data EXCEPT !.status_flags =
                    @ \cup FlagIf(Bit(status, 1), "ONLINE")
                      \cup FlagIf(Bit(status, 2), "ON_BATTERY")
                      \cup FlagIf(Bit(status, 4), "LOW_BATTERY")
                      \cup FlagIf(Bit(status, 8), "CHARGING")
                      \cup FlagIf(Bit(status, 16), "REPLACE_BATTERY")]
            ELSE ups_data
  IN  IF Len(report) >= 3 /\ IsNaN(d1.battery_level) /\ Byte(report, 2) <= 100
      THEN [d1 EXCEPT !.battery_level = Float(Byte(report, 2))]
      ELSE d1

\* GenericHidProtocol::parse_present_status (report 0x16)
Generic_parse_present_status(report, ups_data) ==
  IF Len(report) < 2 THEN ups_data
  ELSE LET status == Byte(report, 1)
       IN  [ups_data EXCEPT !.status_flags =
              FlagIf(Bit(status, 1), "CHARGING")
                \cup FlagIf(Bit(status, 2), "ON_BATTERY")
                \cup FlagIf(Bit(status, 4), "ONLINE")
                \cup FlagIf(Bit(status, 8), "LOW_BATTERY")
                \cup FlagIf(Bit(status, 16), "REPLACE_BATTERY")
                \cup FlagIf(Bit(status, 32), "OVERLOAD")
                \cup FlagIf(Bit(status, 64), "FAULT")]

\* GenericHidProtocol::parse_voltage: a raw value above 1000 is taken to be in
\* units of 0.1 V, and only 80 V to 300 V is kept
Generic_parse_voltage(report, ups_data, is_input) ==
  IF Len(report) < 3 THEN ups_data
  ELSE LET voltage_raw == Byte(report, 1) + Byte(report, 2) * 256
           voltage == IF voltage_raw > 1000 THEN voltage_raw ELSE Float(voltage_raw)
       IN  IF voltage >= Float(80) /\ voltage <= Float(300)
           THEN IF is_input THEN [ups_data EXCEPT !.input_voltage = voltage]
                ELSE [ups_data EXCEPT !.output_voltage = voltage]
           ELSE ups_data

\* GenericHidProtocol::parse_load (report 0x50)
Generic_parse_load(report, ups_data) ==
  IF Len(report) < 2 THEN ups_data
  ELSE LET load == Byte(report, 1)
       IN  IF load <= 100 THEN [ups_data EXCEPT !.load_percent = Float(load)]
           ELSE IF load <= 200 THEN [ups_data EXCEPT !.load_percent = Float(load) \div 2]
           ELSE ups_data

\* GenericHidProtocol::read_data, its end: names for a device that gave none
\* (its ids taken to be 0x1234:0x5678), and ONLINE when a read succeeded and no
\* flag is set
Generic_finish(data, success) ==
  [data EXCEPT
     !.manufacturer = IF @ = "" THEN "Generic" ELSE @,
     !.model = IF @ = "" THEN "HID UPS 1234:5678" ELSE @,
     !.status_flags = IF success /\ @ = {} THEN {"ONLINE"} ELSE @]

\* GenericHidProtocol::read_data: `if (read_report(0x0C, ...)) parse_...(...)`,
\* and the same for 0x06, 0x16 and 0x50; the voltage report is 0x31, read after
\* the read of 0x30 failed, which makes it the output voltage
Generic_read_power_summary(answer, data) ==
  IF answer = << >> THEN data
  ELSE Generic_parse_power_summary(read_hid_report(12, answer), data)
Generic_read_battery_status(answer, data) ==
  IF answer = << >> THEN data
  ELSE Generic_parse_battery_status(read_hid_report(6, answer), data)
Generic_read_present_status(answer, data) ==
  IF answer = << >> THEN data
  ELSE Generic_parse_present_status(read_hid_report(22, answer), data)
Generic_read_voltage(answer, data) ==
  IF answer = << >> THEN data
  ELSE Generic_parse_voltage(read_hid_report(49, answer), data, FALSE)
Generic_read_load(answer, data) ==
  IF answer = << >> THEN data
  ELSE Generic_parse_load(read_hid_report(80, answer), data)

\* GenericHidProtocol::read_data, for a device that returns at most the reports
\* 0x0C (answers.summary), 0x06 (answers.battery), 0x16 (answers.status), 0x31
\* (answers.voltage) and 0x50 (answers.load)
Generic_read_data(answers, data) ==
  [ data |->
      Generic_finish(
        Generic_read_load(answers.load,
          Generic_read_voltage(answers.voltage,
            Generic_read_present_status(answers.status,
              Generic_read_battery_status(answers.battery,
                Generic_read_power_summary(answers.summary, data))))),
        AnyRead(answers)),
    success |-> AnyRead(answers) ]

\* one-character strings and the value each has as a digit
DigitTable ==
  [ch \in {"0", "1", "2", "3", "4", "5", "6", "7", "8", "9",
           "a", "b", "c", "d", "e", "f", "A", "B", "C", "D", "E", "F"} |->
    CASE ch = "0" -> 0 [] ch = "1" -> 1 [] ch = "2" -> 2 [] ch = "3" -> 3
      [] ch = "4" -> 4 [] ch = "5" -> 5 [] ch = "6" -> 6 [] ch = "7" -> 7
      [] ch = "8" -> 8 [] ch = "9" -> 9
      [] ch \in {"a", "A"} -> 10 [] ch \in {"b", "B"} -> 11 [] ch \in {"c", "C"} -> 12
      [] ch \in {"d", "D"} -> 13 [] ch \in {"e", "E"} -> 14 [] ch \in {"f", "F"} -> 15]
DigitValue(ch) == DigitTable[ch]
isxdigit(ch) == ch \in DOMAIN DigitTable
isdigit(ch) == isxdigit(ch) /\ DigitTable[ch] <= 9
CharAt(str, i) == SubSeq(str, i, i)

RECURSIVE DigitsValue(_, _)
\* strtof / strtoul over a run of digits of the given base
DigitsValue(str, base) ==
  IF Len(str) = 0 THEN 0
  ELSE DigitsValue(SubSeq(str, 1, Len(str) - 1), base) * base
         + DigitValue(CharAt(str, Len(str)))

\* parse_float_safe: the text after the optional sign
Unsigned(str) ==
  IF Len(str) > 0 /\ CharAt(str, 1) \in {"-", "+"} THEN SubSeq(str, 2, Len(str)) ELSE str
Sign(str) == IF Len(str) > 0 /\ CharAt(str, 1) = "-" THEN 0 - 1 ELSE 1
\* parse_float_safe: digits with at most one '.', and one digit at least
ValidFloat(body) ==
  /\ \A i \in 1 .. Len(body) : isdigit(CharAt(body, i)) \/ CharAt(body, i) = "."
  /\ Cardinality({i \in 1 .. Len(body) : CharAt(body, i) = "."}) <= 1
  /\ \E i \in 1 .. Len(body) : isdigit(CharAt(body, i))
\* where the '.' of a valid body is, one past its end when it has none
DotAt(body) ==
  IF \E i \in 1 .. Len(body) : CharAt(body, i) = "."
  THEN CHOOSE i \in 1 .. Len(body) : CharAt(body, i) = "."
  ELSE Len(body) + 1
\* strtof of a valid body, in tenths, the digits after the first decimal dropped
Tenths(body, dot) ==
  DigitsValue(SubSeq(body, 1, dot - 1), 10) * 10
    + (IF dot < Len(body) THEN DigitValue(CharAt(body, dot + 1)) ELSE 0)
FloatOf(sign, body) ==
  IF ValidFloat(body) THEN [ok |-> TRUE, value |-> sign * Tenths(body, DotAt(body))]
  ELSE [ok |-> FALSE, value |-> NaN]

\* parse_float_safe, for responses without white space: [ok, value]
parse_float_safe(str) == FloatOf(Sign(str), Unsigned(str))

ValidHex(str) ==
  /\ Len(str) \in {1, 2}
  /\ \A i \in 1 .. Len(str) : isxdigit(CharAt(str, i))

\* parse_hex_safe: [ok, value]
parse_hex_safe(str) ==
  IF ValidHex(str) THEN [ok |-> TRUE, value |-> DigitsValue(str, 16)]
  ELSE [ok |-> FALSE, value |-> 0]

\* std::string::find(sub) != npos
Contains(str, sub) ==
  \E i \in 1 .. (Len(str) - Len(sub) + 1) : SubSeq(str, i, i + Len(sub) - 1) = sub

\* ::toupper over the status responses the devices of the model give
ToUpperResponse(r) ==
  CASE r = "onbatt" -> "ONBATT"
    [] r = "online" -> "ONLINE"
    [] OTHER -> r

\* parse_percentage: the sanity check, clamping what lies outside 0-100
ClampPercentage(p) ==
  IF ~p.ok THEN NaN
  ELSE IF p.value >= Float(0) /\ p.value <= Float(100) THEN p.value
  ELSE IF p.value > Float(100) THEN Float(100) ELSE Float(0)

\* ApcSmartProtocol::parse_percentage
parse_percentage(response) ==
  IF response = "" THEN NaN ELSE ClampPercentage(parse_float_safe(response))

\* parse_status_flags: the bits of a hex status byte
HexStatusFlags(status_byte) ==
  FlagIf(Bit(status_byte, 8), "ONLINE")
    \cup FlagIf(Bit(status_byte, 16), "ON_BATTERY")
    \cup FlagIf(Bit(status_byte, 1), "LOW_BATTERY")
    \cup FlagIf(Bit(status_byte, 64), "REPLACE_BATTERY")
    \cup FlagIf(Bit(status_byte, 4), "CHARGING")

\* parse_status_flags: the keywords of a textual status
KeywordFlags(upper_response) ==
  FlagIf(Contains(upper_response, "ONLINE"), "ONLINE")
    \cup FlagIf(Contains(upper_response, "ONBATT")
                  \/ Contains(upper_response, "ON BATTERY"), "ON_BATTERY")
    \cup FlagIf(Contains(upper_response, "LOWBATT")
                  \/ Contains(upper_response, "LOW BATTERY"), "LOW_BATTERY")
    \cup FlagIf(Contains(upper_response, "CHARGING"), "CHARGING")
    \cup FlagIf(Contains(upper_response, "REPLACE"), "REPLACE_BATTERY")
    \cup FlagIf(Contains(upper_response, "OVERLOAD"), "OVERLOAD")
    \cup FlagIf(Contains(upper_response, "FAULT")
                  \/ Contains(upper_response, "ERROR"), "FAULT")

\* parse_status_flags: a response in which nothing is recognised means ONLINE
OrOnline(flags) == IF flags = {} THEN {"ONLINE"} ELSE flags

\* ApcSmartProtocol::parse_status_flags
parse_status_flags(response) ==
  IF response = "" THEN {}
  ELSE IF Len(response) \in {1, 2} /\ parse_hex_safe(response).ok
  THEN HexStatusFlags(parse_hex_safe(response).value)
  ELSE OrOnline(KeywordFlags(ToUpperResponse(response)))

\* ApcSmartProtocol::read_data, for a device that answers at most the commands Q
\* (answers.status), f (answers.summary) and P (answers.load); an answer is a
\* one-element sequence holding the response text, the empty sequence a command
\* that failed
ApcSmart_read_data(answers, data) ==
  [ data |->
      [data EXCEPT
         !.status_flags = IF answers.status # << >>
                          THEN parse_status_flags(answers.status[1]) ELSE @,
         !.battery_level = IF answers.summary # << >>
                           THEN parse_percentage(answers.summary[1]) ELSE NaN,
         !.input_voltage = NaN,
         !.output_voltage = NaN,
         !.load_percent = IF answers.load # << >>
                          THEN parse_percentage(answers.load[1]) ELSE NaN,
         !.runtime_minutes = NaN,
         !.frequency = NaN],
    success |-> answers.status # << >> ]

\* the characters 32 to 126, a question mark standing in for the double quote,
\* the backslash and the backquote
AsciiTable ==
  " !?#$%&'()*+,-./0123456789:;<=>?@ABCDEFGHIJKLMNOPQRSTUVWXYZ[?]^_?abcdefghijklmnopqrstuvwxyz{|}~"
\* static_cast<char>(b) for a printable byte
Chr(b) == CharAt(AsciiTable, b - 31)
HexDigits == "0123456789ABCDEF"
\* "%02X"
Hex2(b) == CharAt(HexDigits, (b \div 16) + 1) \o CharAt(HexDigits, (b % 16) + 1)

\* usb_get_string_descriptor: the descriptor the device holds at the index, the
\* request failing where it holds none (the empty string)
usb_get_string_descriptor(strings, index) ==
  IF index \in DOMAIN strings /\ Len(strings[index]) > 0
  THEN [ok |-> TRUE, value |-> strings[index]]
  ELSE [ok |-> FALSE, value |-> ""]

\* clean_firmware_string: the characters kept
KeptChars ==
  {CharAt(AsciiTable, k) : k \in (17 .. 26) \cup (34 .. 59) \cup (66 .. 91) \cup {1, 14, 15}}
RECURSIVE KeepChars(_)
KeepChars(str) ==
  IF Len(str) = 0 THEN ""
  ELSE IF CharAt(str, 1) \in KeptChars
       THEN CharAt(str, 1) \o KeepChars(SubSeq(str, 2, Len(str)))
       ELSE KeepChars(SubSeq(str, 2, Len(str)))
RECURSIVE TrimLeading(_)
TrimLeading(str) ==
  IF Len(str) > 0 /\ CharAt(str, 1) = " " THEN TrimLeading(SubSeq(str, 2, Len(str)))
  ELSE str
RECURSIVE TrimTrailing(_)
TrimTrailing(str) ==
  IF Len(str) > 0 /\ CharAt(str, Len(str)) = " "
  THEN TrimTrailing(SubSeq(str, 1, Len(str) - 1))
  ELSE str
OrOriginal(cleaned, raw_firmware) == IF Len(cleaned) = 0 THEN raw_firmware ELSE cleaned

\* CyberPowerProtocol::clean_firmware_string
clean_firmware_string(raw_firmware) ==
  IF Len(raw_firmware) = 0 THEN raw_firmware
  ELSE OrOriginal(TrimTrailing(TrimLeading(KeepChars(raw_firmware))), raw_firmware)

\* CyberPowerProtocol::parse_serial_number_report (report 0x02): the byte after
\* the id is a string descriptor index
CyberPower_parse_serial_number_report(report, data, strings) ==
  IF Len(report) < 2 THEN data
  ELSE [data EXCEPT !.serial_number =
          usb_get_string_descriptor(strings, Byte(report, 1)).value]

\* parse_firmware_version_report, primary method: the string descriptor at the
\* index of the report, for an index from 1 to 15; empty when this gives nothing
FirmwareFromDescriptor(string_index, strings) ==
  IF string_index > 0 /\ string_index <= 15
  THEN clean_firmware_string(usb_get_string_descriptor(strings, string_index).value)
  ELSE ""

\* fallback 1: the printable bytes of the report up to its first zero byte, taken
\* when there are at least three
RECURSIVE PrintableBytes(_, _)
PrintableBytes(report, i) ==
  IF i >= Len(report) \/ Byte(report, i) = 0 THEN ""
  ELSE IF Byte(report, i) >= 32 /\ Byte(report, i) <= 126
       THEN Chr(Byte(report, i)) \o PrintableBytes(report, i + 1)
       ELSE PrintableBytes(report, i + 1)
AtLeastThree(str) == IF Len(str) >= 3 THEN str ELSE ""
FirmwareFromHid(report) == AtLeastThree(PrintableBytes(report, 1))

\* fallback 2: the descriptors 4, 5 and 6 but for the one tried already, the
\* first that after cleaning starts with CR or CP or holds FW
LooksLikeFirmware(cleaned_fw) ==
  IF Len(cleaned_fw) >= 2
       /\ (SubSeq(cleaned_fw, 1, 2) = "CR" \/ SubSeq(cleaned_fw, 1, 2) = "CP"
             \/ Contains(cleaned_fw, "FW"))
  THEN cleaned_fw ELSE ""
AlternativeAt(idx, string_index, strings) ==
  IF idx = string_index THEN ""
  ELSE LooksLikeFirmware(clean_firmware_string(usb_get_string_descriptor(strings, idx).value))
OrElse(first, second) == IF Len(first) > 0 THEN first ELSE second
FirmwareAlternative(string_index, strings) ==
  OrElse(AlternativeAt(4, string_index, strings),
         OrElse(AlternativeAt(5, string_index, strings),
                AlternativeAt(6, string_index, strings)))

\* fallback 3: a version made from the bytes of the report
FirmwareFallback(report) ==
  IF Len(report) >= 3
  THEN "CP-" \o Hex2(Byte(report, 1)) \o "." \o Hex2(Byte(report, 2)) \o "."
         \o Hex2(IF Len(report) > 3 THEN Byte(report, 3) ELSE 0)
  ELSE ""

\* CyberPowerProtocol::parse_firmware_version_report (report 0x1b)
CyberPower_parse_firmware_version_report(report, data, strings) ==
  IF Len(report) < 2 THEN data
  ELSE [data EXCEPT !.firmware_version =
          OrElse(FirmwareFromDescriptor(Byte(report, 1), strings),
                 OrElse(FirmwareFromHid(report),
                        OrElse(FirmwareAlternative(Byte(report, 1), strings),
                               FirmwareFallback(report))))]

\* CyberPowerProtocol::read_data, its end: the manufacturer and the model are the
\* string descriptors 3 and 1 after a success, empty when the descriptor cannot
\* be read, and cleared after a failure
CyberPower_identify(data, success, strings) ==
  IF success
  THEN [data EXCEPT !.manufacturer = usb_get_string_descriptor(strings, 3).value,
                    !.model = usb_get_string_descriptor(strings, 1).value]
  ELSE [data EXCEPT !.manufacturer = "", !.model = ""]

\* CyberPowerProtocol::read_data: `if (read_hid_report(0x08, r)) parse_...(r, data)`,
\* and the same for 0x0b, 0x0f, 0x13, 0x02 and 0x1b
CyberPower_read_battery_runtime(answer, data) ==
  IF answer = << >> THEN data
  ELSE CyberPower_parse_battery_runtime_report(read_hid_report(8, answer), data)
CyberPower_read_present_status(answer, data) ==
  IF answer = << >> THEN data
  ELSE CyberPower_parse_present_status_report(read_hid_report(11, answer), data)
CyberPower_read_input_voltage(answer, data) ==
  IF answer = << >> THEN data
  ELSE CyberPower_parse_input_voltage_report(read_hid_report(15, answer), data)
CyberPower_read_load_percent(answer, data) ==
  IF answer = << >> THEN data
  ELSE CyberPower_parse_load_percent_report(read_hid_report(19, answer), data)
CyberPower_read_serial_number(answer, data, strings) ==
  IF answer = << >> THEN data
  ELSE CyberPower_parse_serial_number_report(read_hid_report(2, answer), data, strings)
CyberPower_read_firmware_version(answer, data, strings) ==
  IF answer = << >> THEN data
  ELSE CyberPower_parse_firmware_version_report(read_hid_report(27, answer), data, strings)

\* CyberPowerProtocol::read_data, for a device that returns at most the reports
\* 0x08 (answers.summary), 0x0b (answers.status), 0x0f (answers.voltage), 0x13
\* (answers.load), 0x02 (answers.serial) and 0x1b (answers.firmware), and whose
\* string descriptors are answers.strings
CyberPower_read_data(answers, data) ==
  [ data |->
      CyberPower_identify(
        [ CyberPower_read_firmware_version(answers.firmware,
            CyberPower_read_serial_number(answers.serial,
              CyberPower_read_load_percent(answers.load,
                CyberPower_read_input_voltage(answers.voltage,
                  CyberPower_read_present_status(answers.status,
                    CyberPower_read_battery_runtime(answers.summary, data)))),
              answers.strings),
            answers.strings)
          EXCEPT !.frequency = NaN ],
        answers.summary # << >> \/ answers.status # << >>
          \/ answers.voltage # << >> \/ answers.load # << >>,
        answers.strings),
    success |-> answers.summary # << >> \/ answers.status # << >>
                  \/ answers.voltage # << >> \/ answers.load # << >> ]

-----------------------------------------------------------------------------
(* NUT server: data provider *)

\* has_ups_data answering true whatever the core says
has_ups_data_always == TRUE

has_ups_data == is_connected

get_ups_name == IF ups_name_ = "" THEN "ups" ELSE ups_name_

get_ups_manufacturer ==
  IF get_ups_data.manufacturer # "" THEN get_ups_data.manufacturer ELSE "Unknown"

get_ups_model ==
  IF get_ups_data.model # "" THEN get_ups_data.model ELSE "Unknown UPS"

get_ups_description ==
  IF ~has_ups_data THEN "ESPHome UPS"
  ELSE LET manufacturer == get_ups_manufacturer
           model == get_ups_model
       IN  IF manufacturer # "" /\ model # "" THEN manufacturer \o " " \o model
           ELSE IF manufacturer = "" THEN "ESPHome UPS" ELSE manufacturer

AppendTok(status, tok) == IF status # "" THEN status \o " " \o tok ELSE tok

get_ups_status ==
  IF ~is_connected THEN ""
  ELSE LET s1 == IF HasFlag("ONLINE") THEN "OL"
                 ELSE IF HasFlag("ON_BATTERY") THEN "OB" ELSE ""
           s2 == IF HasFlag("LOW_BATTERY") THEN AppendTok(s1, "LB") ELSE s1
           s3 == IF HasFlag("CHARGING") THEN AppendTok(s2, "CHRG") ELSE s2
       IN  IF HasFlag("FAULT") THEN AppendTok(s3, "ALARM") ELSE s3

\* std::to_string(float) then strtof and "%.1f"
format_nut_value(x) == Fmt1(x)

get_ups_var(var_name) ==
  LET d == get_ups_data IN
  IF ~has_ups_data THEN ""
  ELSE IF var_name = "ups.mfr" THEN get_ups_manufacturer
  ELSE IF var_name = "ups.model" THEN get_ups_model
  ELSE IF var_name = "ups.serial" /\ d.serial_number # "" THEN d.serial_number
  ELSE IF var_name = "ups.firmware" /\ d.firmware_version # "" THEN d.firmware_version
  ELSE IF var_name = "battery.charge" /\ FGe(get_battery_level, 0)
       THEN ToString(CastInt(get_battery_level))
  ELSE IF var_name = "battery.voltage" /\ ~IsNaN(d.battery_voltage)
       THEN format_nut_value(d.battery_voltage)
  ELSE IF var_name = "battery.voltage.nominal" /\ ~IsNaN(d.battery_voltage_nominal)
       THEN format_nut_value(d.battery_voltage_nominal)
  ELSE IF var_name = "battery.runtime" /\ FGt(get_runtime_minutes, 0)
       THEN ToString(CastInt(get_runtime_minutes * 60))
  ELSE IF var_name = "input.voltage" /\ FGt(get_input_voltage, 0)
       THEN format_nut_value(get_input_voltage)
  ELSE IF var_name = "input.voltage.nominal" /\ ~IsNaN(d.input_voltage_nominal)
       THEN format_nut_value(d.input_voltage_nominal)
  ELSE IF var_name = "input.frequency" /\ ~IsNaN(d.frequency)
       THEN format_nut_value(d.frequency)
  ELSE IF var_name = "input.transfer.low" /\ ~IsNaN(d.input_transfer_low)
       THEN format_nut_value(d.input_transfer_low)
  ELSE IF var_name = "input.transfer.high" /\ ~IsNaN(d.input_transfer_high)
       THEN format_nut_value(d.input_transfer_high)
  ELSE IF var_name = "output.voltage" /\ FGt(get_output_voltage, 0)
       THEN format_nut_value(get_output_voltage)
  ELSE IF var_name = "output.voltage.nominal" /\ ~IsNaN(d.output_voltage_nominal)
       THEN format_nut_value(d.output_voltage_nominal)
  ELSE IF var_name = "ups.load" /\ FGe(get_load_percent, 0)
       THEN ToString(CastInt(get_load_percent))
  ELSE IF var_name = "ups.realpower.nominal" /\ ~IsNaN(d.ups_realpower_nominal)
       THEN ToString(CastInt(d.ups_realpower_nominal))
  ELSE IF var_name = "ups.power.nominal" /\ ~IsNaN(d.apparent_power_nominal)
       THEN ToString(CastInt(d.apparent_power_nominal))
  ELSE IF var_name = "ups.status" THEN get_ups_status
  ELSE ""

\* handle_list_var: the variables listed, in order
ListVarNames ==
  << "ups.mfr", "ups.model", "ups.status", "ups.serial", "ups.firmware",
     "battery.charge", "battery.voltage", "battery.voltage.nominal", "battery.runtime",
     "input.voltage", "input.voltage.nominal", "input.frequency",
     "input.transfer.low", "input.transfer.high",
     "output.voltage", "output.voltage.nominal",
     "ups.load", "ups.realpower.nominal", "ups.power.nominal" >>

\* get_available_commands
AvailableCommands ==
  IF is_connected
  THEN << "beeper.enable", "beeper.disable", "beeper.mute", "beeper.test",
          "test.battery.start.quick", "test.battery.start.deep", "test.battery.stop",
          "test.panel.start", "test.panel.stop", "test.ups.start", "test.ups.stop" >>
  ELSE << >>

\* execute_command: the commands mapped to a UPS core control call
KnownInstCmds ==
  { "beeper.enable", "beeper.disable", "beeper.mute", "beeper.test",
    "test.battery.start.quick", "test.battery.start.deep", "test.battery.stop",
    "test.panel.start", "test.ups.start", "test.panel.stop", "test.ups.stop" }

-----------------------------------------------------------------------------
(* NUT server: client slots *)

\* struct NutClient, as constructed
NutClient ==
  [ socket_fd |-> -1, state |-> "DISCONNECTED", remote_ip |-> "",
    connect_time |-> 0, last_activity |-> 0, login_attempts |-> 0,
    username |-> "", temp_username |-> "", temp_password |-> "" ]

NutClient_reset(c) == NutClient
is_active(c) == c.socket_fd >= 0 /\ c.state # "DISCONNECTED"
is_authenticated(c) == c.state = "AUTHENTICATED"

\* The address accept() reports for the peer of descriptor fd
PeerIp(fd) == "10.0.0." \o ToString(fd + 1)

\* ::toupper over the command words the clients of the model send
ToUpper(w) ==
  CASE w = "list" -> "LIST"
    [] w = "var" -> "VAR"
    [] w = "get" -> "GET"
    [] w = "login" -> "LOGIN"
    [] w = "ups" -> "UPS"
    [] OTHER -> w

RECURSIVE JoinArgs(_)
\* the text after the command word: the words joined by single spaces
JoinArgs(ws) ==
  IF ws = << >> THEN ""
  ELSE IF Len(ws) = 1 THEN ws[1]
  ELSE ws[1] \o " " \o JoinArgs(Tail(ws))

\* split_args on text without quotes: its words
split_args(ws) == ws

authenticate(username, password) ==
  IF password_ = "" THEN TRUE
  ELSE username = username_ /\ password = password_

(* What one command does: the client record after it, the text sent, the UPS
   control call made ("" for none) and whether the client's socket was closed. *)
Sent(c, text) == [c |-> c, reply |-> text, exec |-> "", closed |-> FALSE]
send_error(c, code) == Sent(c, "ERR " \o code \o "\n")
\* a disconnect that closes the socket and leaves the rest of the slot
disconnect_client_kept(c, text) ==
  [c |-> [c EXCEPT !.socket_fd = -1, !.state = "DISCONNECTED"], reply |-> text,
   exec |-> "", closed |-> c.socket_fd >= 0]
disconnect_client(c, text) ==
  [c |-> NutClient_reset(c), reply |-> text, exec |-> "", closed |-> c.socket_fd >= 0]

\* handle_login with > MAX_LOGIN_ATTEMPTS in place of >=
handle_login_gt(c, args) ==
  LET parts == split_args(args)
      bumped == [c EXCEPT !.login_attempts = c.login_attempts + 1]
  IN  IF c.state = "AUTHENTICATED"
      THEN IF bumped.login_attempts > MAX_LOGIN_ATTEMPTS
           THEN disconnect_client(bumped, "")
           ELSE Sent(bumped, "OK\n")
      ELSE IF Len(parts) # 2 THEN send_error(c, "INVALID-ARGUMENT")
      ELSE IF authenticate(parts[1], parts[2])
           THEN Sent([c EXCEPT !.state = "AUTHENTICATED", !.username = parts[1]], "OK\n")
      ELSE IF bumped.login_attempts > MAX_LOGIN_ATTEMPTS
           THEN disconnect_client(bumped, "")
           ELSE send_error(bumped, "ACCESS-DENIED")

handle_login(c, args) ==
  LET parts == split_args(args)
      bumped == [c EXCEPT !.login_attempts = c.login_attempts + 1]
  IN  IF c.state = "AUTHENTICATED"
      THEN IF bumped.login_attempts >= MAX_LOGIN_ATTEMPTS
           THEN disconnect_client(bumped, "")
           ELSE Sent(bumped, "OK\n")
      ELSE IF Len(parts) # 2 THEN send_error(c, "INVALID-ARGUMENT")
      ELSE IF authenticate(parts[1], parts[2])
           THEN Sent([c EXCEPT !.state = "AUTHENTICATED", !.username = parts[1]], "OK\n")
      ELSE IF bumped.login_attempts >= MAX_LOGIN_ATTEMPTS
           THEN disconnect_client(bumped, "")
           ELSE send_error(bumped, "ACCESS-DENIED")

handle_username(c, args) ==
  IF args = << >> THEN send_error(c, "INVALID-ARGUMENT")
  ELSE Sent([c EXCEPT !.temp_username = JoinArgs(args)], "OK\n")

handle_password(c, args) ==
  IF args = << >> THEN send_error(c, "INVALID-ARGUMENT")
  ELSE LET c1 == [c EXCEPT !.temp_password = JoinArgs(args)]
           r == IF authenticate(c1.temp_username, c1.temp_password)
                THEN Sent([c1 EXCEPT !.state = "AUTHENTICATED",
                                     !.username = c1.temp_username,
                                     !.login_attempts = 0], "OK\n")
                ELSE LET bumped == [c1 EXCEPT !.login_attempts = c1.login_attempts + 1]
                     IN  IF bumped.login_attempts >= MAX_LOGIN_ATTEMPTS
                         THEN disconnect_client(bumped, "")
                         ELSE send_error(bumped, "ACCESS-DENIED")
       IN  [r EXCEPT !.c.temp_username = "", !.c.temp_password = ""]

handle_logout(c) == disconnect_client(c, "OK Goodbye\n")

handle_list_ups(c) ==
  Sent(c, "BEGIN LIST UPS\n" \o "UPS " \o get_ups_name \o " \"" \o get_ups_description
          \o "\"\n" \o "END LIST UPS\n")

RECURSIVE VarLines(_)
\* handle_list_var: the VAR lines of the variables from position k on
VarLines(k) ==
  IF k > Len(ListVarNames) THEN ""
  ELSE LET var == ListVarNames[k]
           value == get_ups_var(var)
       IN  (IF value # ""
            THEN "VAR " \o get_ups_name \o " " \o var \o " \"" \o value \o "\"\n"
            ELSE "") \o VarLines(k + 1)

\* handle_list_var before it is entered: k is the index of the variable the
\* loop has reached, 0 outside the loop; response holds the lines appended
NoListVar == [k |-> 0, response |-> << >>]
ListLine(text, var, value) == [text |-> text, var |-> var, value |-> value]

handle_list_var(c, args) ==
  IF JoinArgs(args) # get_ups_name THEN send_error(c, "UNKNOWN-UPS")
  ELSE IF ~has_ups_data THEN send_error(c, "DATA-STALE")
  ELSE Sent(c, "BEGIN LIST VAR " \o get_ups_name \o "\n" \o VarLines(1)
               \o "END LIST VAR " \o get_ups_name \o "\n")

handle_get_var(c, args) ==
  LET parts == split_args(args) IN
  IF Len(parts) # 2 THEN send_error(c, "INVALID-ARGUMENT")
  ELSE IF parts[1] # get_ups_name THEN send_error(c, "UNKNOWN-UPS")
  ELSE LET value == get_ups_var(parts[2])
       IN  IF value # ""
           THEN Sent(c, "VAR " \o get_ups_name \o " " \o parts[2] \o " \"" \o value \o "\"\n")
           ELSE send_error(c, "VAR-NOT-SUPPORTED")

RECURSIVE CmdLines(_)
CmdLines(k) ==
  IF k > Len(AvailableCommands) THEN ""
  ELSE "CMD " \o get_ups_name \o " " \o AvailableCommands[k] \o "\n" \o CmdLines(k + 1)

handle_list_cmd(c, args) ==
  IF JoinArgs(args) # get_ups_name THEN send_error(c, "UNKNOWN-UPS")
  ELSE Sent(c, "BEGIN LIST CMD " \o get_ups_name \o "\n" \o CmdLines(1)
               \o "END LIST CMD " \o get_ups_name \o "\n")

RECURSIVE ClientLines(_, _)
\* handle_list_clients: the CLIENT lines of the slots from i on, cs being clients_
\* as the handler sees it (the requesting client's last_activity already updated)
ClientLines(cs, i) ==
  IF i > MaxClients THEN ""
  ELSE (IF is_active(cs[i])
        THEN "CLIENT " \o cs[i].remote_ip \o " "
             \o ToString((clock - cs[i].connect_time) \div 1000) \o " "
             \o (IF is_authenticated(cs[i]) THEN "authenticated" ELSE "connected") \o "\n"
        ELSE "") \o ClientLines(cs, i + 1)

handle_list_clients(c, cs) ==
  Sent(c, "BEGIN LIST CLIENT\n" \o ClientLines(cs, 1) \o "END LIST CLIENT\n")

handle_list_rwvar(c, args) ==
  IF JoinArgs(args) # get_ups_name THEN send_error(c, "UNKNOWN-UPS")
  ELSE Sent(c, "BEGIN LIST RW " \o get_ups_name \o "\n"
               \o "END LIST RW " \o get_ups_name \o "\n")

\* handle_list_enum and handle_list_range, kind being "ENUM" or "RANGE"
handle_list_enum(c, args, kind) ==
  LET parts == split_args(args) IN
  IF Len(parts) # 2 \/ parts[1] # get_ups_name THEN send_error(c, "INVALID-ARGUMENT")
  ELSE Sent(c, "BEGIN LIST " \o kind \o " " \o get_ups_name \o " " \o parts[2] \o "\n"
               \o "END LIST " \o kind \o " " \o get_ups_name \o " " \o parts[2] \o "\n")

\* ok: what the UPS core's control call returns
handle_instcmd(c, args, ok) ==
  LET parts == split_args(args) IN
  IF Len(parts) # 2 THEN send_error(c, "INVALID-ARGUMENT")
  ELSE IF parts[1] # get_ups_name THEN send_error(c, "UNKNOWN-UPS")
  ELSE IF parts[2] \in KnownInstCmds
       THEN [ (IF ok THEN Sent(c, "OK\n") ELSE send_error(c, "CMD-NOT-SUPPORTED"))
                EXCEPT !.exec = parts[2] ]
       ELSE send_error(c, "CMD-NOT-SUPPORTED")

handle_legacy_list_vars(c) ==
  IF ~has_ups_data THEN send_error(c, "DATA-STALE")
  ELSE Sent(c, "ups.mfr\n" \o "ups.model\n" \o "battery.charge\n" \o "input.voltage\n"
               \o "output.voltage\n" \o "ups.load\n" \o "battery.runtime\n"
               \o "ups.status\n")

\* process_command: commands dispatched before the authentication gate
UnauthenticatedCommands ==
  {"HELP", "VER", "VERSION", "NETVER", "STARTTLS", "USERNAME", "PASSWORD",
   "LOGIN", "LOGOUT", "UPSDVER"}

NUT_VERSION == "2.8.0"
UPSD_VERSION == "upsd 2.8.0 - ESPHome NUT Server"

\* process_command, the LIST branch: args are the words after LIST
process_list(c, cs, args) ==
  LET subcmd == IF args = << >> THEN "" ELSE ToUpper(Head(args))
      subargs == IF args = << >> THEN << >> ELSE Tail(args)
  IN  IF subcmd = "UPS" THEN handle_list_ups(c)
      ELSE IF subcmd = "VAR" THEN handle_list_var(c, subargs)
      ELSE IF subcmd = "CMD" THEN handle_list_cmd(c, subargs)
      ELSE IF subcmd = "CLIENTS" THEN handle_list_clients(c, cs)
      ELSE IF subcmd = "RW" THEN handle_list_rwvar(c, subargs)
      ELSE IF subcmd = "ENUM" THEN handle_list_enum(c, subargs, "ENUM")
      ELSE IF subcmd = "RANGE" THEN handle_list_enum(c, subargs, "RANGE")
      ELSE send_error(c, "INVALID-ARGUMENT")

\* process_command, the branch behind the authentication gate
process_authenticated(c, cs, cmd, args, ok) ==
  LET subcmd == IF args = << >> THEN "" ELSE ToUpper(Head(args))
      subargs == IF args = << >> THEN << >> ELSE Tail(args)
  IN  IF cmd = "LIST" THEN process_list(c, cs, args)
      ELSE IF cmd = "GET"
           THEN IF subcmd = "VAR" THEN handle_get_var(c, subargs)
                ELSE send_error(c, "INVALID-ARGUMENT")
      ELSE IF cmd = "SET"
           THEN IF subcmd = "VAR" THEN send_error(c, "CMD-NOT-SUPPORTED")
                ELSE send_error(c, "INVALID-ARGUMENT")
      ELSE IF cmd = "INSTCMD" THEN handle_instcmd(c, args, ok)
      ELSE IF cmd = "FSD" THEN Sent(c, "OK FSD-SET\n")
      ELSE IF cmd = get_ups_name THEN handle_legacy_list_vars(c)
      ELSE send_error(c, "UNKNOWN-COMMAND")

\* the gate with the test of password_ inverted
requires_auth_inverted(c) == password_ = "" /\ ~is_authenticated(c)

\* process_command: the authentication gate in front of the remaining commands
requires_auth(c) == password_ # "" /\ ~is_authenticated(c)

\* process_command: c the client, cs all the slots, command the line received
process_command(c, cs, command, ok) ==
  IF command = << >> THEN Sent(c, "")
  ELSE LET cmd == ToUpper(Head(command))
           args == Tail(command)
       IN  IF cmd = "HELP"
           THEN Sent(c, "Commands: HELP VERSION NETVER STARTTLS USERNAME PASSWORD "
                        \o "LOGIN LOGOUT LIST GET SET INSTCMD FSD UPSDVER\n")
           ELSE IF cmd = "VER" \/ cmd = "VERSION"
                THEN Sent(c, "VERSION \"" \o NUT_VERSION \o "\"\n")
           ELSE IF cmd = "NETVER" THEN Sent(c, "1.3\n")
           ELSE IF cmd = "STARTTLS" THEN send_error(c, "FEATURE-NOT-SUPPORTED")
           ELSE IF cmd = "USERNAME" THEN handle_username(c, args)
           ELSE IF cmd = "PASSWORD" THEN handle_password(c, args)
           ELSE IF cmd = "LOGIN" THEN handle_login(c, args)
           ELSE IF cmd = "LOGOUT" THEN handle_logout(c)
           ELSE IF cmd = "UPSDVER" THEN Sent(c, UPSD_VERSION \o "\n")
           ELSE IF requires_auth(c) THEN send_error(c, "ACCESS-DENIED")
           ELSE process_authenticated(c, cs, cmd, args, ok)

-----------------------------------------------------------------------------
(* What the clients of the model send *)

CommandLines ==
  { << >>,
    <<"HELP">>,
    <<"LOGIN", "admin", "secret">>, <<"LOGIN", "admin", "wrong">>, <<"LOGIN", "admin">>,
    <<"USERNAME", "admin">>, <<"PASSWORD", "secret">>, <<"PASSWORD", "wrong">>,
    <<"LOGOUT">>,
    <<"list", "var", "ups">>, <<"LIST", "CLIENTS">>,
    <<"GET", "VAR", "ups", "battery.charge">>, <<"GET", "VAR", "ups", "no.such.var">>,
    <<"INSTCMD", "ups", "beeper.enable">>,
    <<"BOGUS">> }

\* What one recv() can return: one line, or two lines that arrived together
Chunks ==
  { <<l>> : l \in CommandLines }
    \cup { <<<<"HELP">>, <<"LIST", "UPS">>>>,
           <<<< >>, <<"HELP">>>> }

\* A received chunk together with what the UPS core answers to a control call
\* (the answer only matters to a chunk that makes one)
Inputs ==
  { [chunk |-> ch, ok |-> TRUE] : ch \in Chunks }
    \cup { [chunk |-> <<<<"INSTCMD", "ups", "beeper.enable">>>>, ok |-> FALSE] }

\* The chunks sent while the slots' lifecycle is explored
SlotInputs ==
  { [chunk |-> <<l>>, ok |-> TRUE] :
      l \in { <<"HELP">>, <<"LOGOUT">>, <<"LOGIN", "admin", "wrong">> } }

NonEmptyLines(chunk) == Cardinality({k \in 1..Len(chunk) : chunk[k] # << >>})

\* What a line is as an authentication attempt of client c, judged by the
\* credentials alone: "fail" when a password is configured and LOGIN <user> <pass>
\* or PASSWORD <pass> (with the USERNAME given before) does not carry the configured
\* credentials, "success" when it carries them, "none" for every other line.
AuthAttempt(c, line) ==
  IF line = << >> \/ password_ = "" THEN "none"
  ELSE IF ToUpper(Head(line)) = "LOGIN" /\ Len(line) = 3
       THEN IF line[2] = "admin" /\ line[3] = "secret" THEN "success" ELSE "fail"
  ELSE IF ToUpper(Head(line)) = "PASSWORD" /\ Len(line) = 2
       THEN IF c.temp_username = "admin" /\ line[2] = "secret" THEN "success" ELSE "fail"
  ELSE "none"

-----------------------------------------------------------------------------
(* NUT server: the steps of the server task and of the main loop *)

\* a polling cycle in which the device returned nothing
NoAnswers ==
  [summary |-> << >>, battery |-> << >>, status |-> << >>, voltage |-> << >>,
   load |-> << >>, serial |-> << >>, firmware |-> << >>, strings |-> <<"">>]

Obs(kind) ==
  [ kind |-> kind, slot |-> 0, line |-> << >>, pre |-> "", reply |-> "",
    exec |-> "", closed |-> FALSE, received |-> 0, handled |-> 0,
    answers |-> NoAnswers, ok |-> FALSE, temp_data |-> << >>, outcome |-> "",
    vendor_id |-> 0, detects |-> {}, send_errno |-> "" ]

\* accept(): the lowest descriptor not in use
NewSocket == CHOOSE fd \in Fds \ openSockets : \A g \in Fds \ openSockets : fd <= g

\* the loop over clients_ stopping at its first slot, active or not
FreeSlot_first == CHOOSE i \in Slots : \A j \in Slots : i <= j

\* accept_clients: the slot the loop over clients_ stops at, 0 when none is free
FreeSlot ==
  IF \E i \in Slots : ~is_active(clients_[i])
  THEN CHOOSE i \in Slots : ~is_active(clients_[i])
                            /\ \A j \in Slots : ~is_active(clients_[j]) => i <= j
  ELSE 0

\* accept_clients, when accept() returns a connection
AcceptClients ==
  LET fd == NewSocket
      i == FreeSlot
  IN  /\ IF i # 0
         THEN /\ clients_' = [clients_ EXCEPT ![i] =
                    [@ EXCEPT !.socket_fd = fd, !.state = "CONNECTED",
                              !.last_activity = clock, !.connect_time = clock,
                              !.login_attempts = 0, !.remote_ip = PeerIp(fd)]]
              /\ openSockets' = openSockets \cup {fd}
              /\ failed_logins' = [failed_logins EXCEPT ![i] = 0]
              /\ last' = [Obs("accept") EXCEPT !.slot = i]
         ELSE /\ UNCHANGED <<clients_, openSockets, failed_logins>>
              /\ last' = [Obs("reject") EXCEPT !.closed = TRUE,
                            !.reply = "ERR MAX-CLIENTS Maximum number of clients reached\n"]
      /\ UNCHANGED <<resetSockets, clock, loop_now, loop_pc, password_, list_var, usbVars, active_protocol_, sensors_, connected_, ups_data_>>

\* send_response: the value returned, which no caller looks at
send_response(send_errno) == send_errno = ""

\* handle_client, recv() > 0: only the text before the first '\n' is kept.
\* send_errno is the errno of the send() of the reply, "" when it succeeds.
HandleClient(i, chunk, ok, send_errno) ==
  /\ is_active(clients_[i])
  /\ clients_[i].socket_fd \notin resetSockets
  /\ LET c == [clients_[i] EXCEPT !.last_activity = clock]
         cs == [clients_ EXCEPT ![i] = c]
         r == process_command(c, cs, Head(chunk), ok)
     IN  /\ ~send_response(send_errno) => r.reply # ""
         /\ clients_' = [clients_ EXCEPT ![i] = r.c]
         /\ openSockets' = IF r.closed THEN openSockets \ {clients_[i].socket_fd}
                           ELSE openSockets
         /\ resetSockets' = IF r.closed \/ send_response(send_errno) THEN resetSockets
                            ELSE resetSockets \cup {clients_[i].socket_fd}
         /\ failed_logins' = [failed_logins EXCEPT ![i] =
               CASE AuthAttempt(clients_[i], Head(chunk)) = "fail" -> @ + 1
                 [] AuthAttempt(clients_[i], Head(chunk)) = "success" -> 0
                 [] OTHER -> IF r.closed THEN 0 ELSE @]
         /\ last' = [Obs("command") EXCEPT !.slot = i, !.line = Head(chunk),
                       !.pre = clients_[i].state, !.reply = r.reply, !.exec = r.exec,
                       !.closed = r.closed, !.received = NonEmptyLines(chunk),
                       !.handled = IF Head(chunk) # << >> THEN 1 ELSE 0,
                       !.send_errno = send_errno]
  /\ UNCHANGED <<clock, loop_now, loop_pc, password_, list_var, usbVars, active_protocol_, sensors_, connected_, ups_data_>>

\* handle_client with the reply delivered
HandleClientData(i, chunk, ok) == HandleClient(i, chunk, ok, "")

\* handle_client with the reply refused because the peer has disconnected
HandleClientSendFails(i, chunk, ok, send_errno) == HandleClient(i, chunk, ok, send_errno)

\* handle_client logging the error of recv() and keeping the slot
HandleClientGone_kept(i) ==
  /\ is_active(clients_[i])
  /\ last' = [Obs("gone") EXCEPT !.slot = i]
  /\ UNCHANGED <<nutVars, coreVars, usbVars>>

\* handle_client, recv() == 0 or an error other than EWOULDBLOCK/EAGAIN
HandleClientGone(i) ==
  /\ is_active(clients_[i])
  /\ clients_' = [clients_ EXCEPT ![i] = NutClient_reset(@)]
  /\ openSockets' = openSockets \ {clients_[i].socket_fd}
  /\ resetSockets' = resetSockets \ {clients_[i].socket_fd}
  /\ failed_logins' = [failed_logins EXCEPT ![i] = 0]
  /\ last' = [Obs("gone") EXCEPT !.slot = i, !.closed = TRUE,
                !.ok = clients_[i].socket_fd \in resetSockets]
  /\ UNCHANGED <<clock, loop_now, loop_pc, password_, list_var, usbVars, active_protocol_, sensors_, connected_, ups_data_>>

\* cleanup_inactive_clients: now = millis(), read before the mutex is taken
CleanupReadNow ==
  /\ loop_pc = "idle"
  /\ loop_now' = clock
  /\ loop_pc' = "scan"
  /\ last' = Obs("loop")
  /\ UNCHANGED <<clients_, openSockets, resetSockets, clock, password_, list_var, usbVars, active_protocol_, sensors_, connected_, ups_data_,
                 failed_logins>>

\* the timeout compared as if CLIENT_TIMEOUT_MS were in seconds
TimedOut_seconds(c, now) ==
  is_active(c) /\ U32SubGt(now, c.last_activity, CLIENT_TIMEOUT_MS * 1000)

\* cleanup_inactive_clients: the condition under which a slot is disconnected
TimedOut(c, now) ==
  is_active(c) /\ U32SubGt(now, c.last_activity, CLIENT_TIMEOUT_MS)

\* cleanup_inactive_clients: the loop over the slots, under clients_mutex_
CleanupScan ==
  /\ loop_pc = "scan"
  /\ clients_' = [i \in Slots |->
                    IF TimedOut(clients_[i], loop_now)
                    THEN NutClient_reset(clients_[i]) ELSE clients_[i]]
  /\ openSockets' = openSockets \
                      {clients_[i].socket_fd : i \in {j \in Slots : TimedOut(clients_[j], loop_now)}}
  /\ resetSockets' = resetSockets \
                      {clients_[i].socket_fd : i \in {j \in Slots : TimedOut(clients_[j], loop_now)}}
  /\ failed_logins' = [i \in Slots |->
                         IF TimedOut(clients_[i], loop_now) THEN 0 ELSE failed_logins[i]]
  /\ loop_pc' = "idle"
  /\ last' = [Obs("cleanup") EXCEPT
                !.closed = \E i \in Slots : TimedOut(clients_[i], loop_now)]
  /\ UNCHANGED <<clock, loop_now, password_, list_var, usbVars, active_protocol_, sensors_, connected_, ups_data_>>

\* time passes
Tick ==
  /\ clock + TickMs <= MaxTicks * TickMs
  /\ clock' = clock + TickMs
  /\ last' = Obs("tick")
  /\ UNCHANGED <<clients_, openSockets, resetSockets, loop_now, loop_pc, password_, list_var, usbVars, active_protocol_, sensors_, connected_,
                 ups_data_, failed_logins>>

\* simulate_ups_data: the simulated connection loss and restoration
SimulateConnection ==
  /\ connected_' = ~connected_
  /\ last' = Obs("core")
  /\ UNCHANGED <<clients_, openSockets, resetSockets, clock, loop_now, loop_pc, password_, list_var, usbVars, active_protocol_, sensors_, ups_data_,
                 failed_logins>>

\* What a device may answer to one polling cycle of a HID decoder: the bytes
\* after the report id of the power summary, battery status, present status,
\* voltage and load reports, << >> for a report it does not return
SummaryAnswers == {<< >>, <<85, 35, 0>>, <<200, 0, 0>>}
BatteryAnswers == {<< >>, <<3, 50>>}
StatusAnswers == {<< >>, <<5>>, <<6>>, <<12, 1>>}
VoltageAnswers == {<< >>, <<230, 0>>, <<255, 255>>}
LoadAnswers == {<< >>, <<45>>, <<200>>}
\* the string descriptors of a device, by index; empty where it holds none
DefaultStrings ==
  [i \in 0 .. 6 |->
     CASE i = 1 -> "CP1500" [] i = 2 -> "SN123" [] i = 3 -> "CPS" [] i = 5 -> " CR01.5!"
       [] OTHER -> ""]
HidAnswers ==
  [summary : SummaryAnswers, battery : BatteryAnswers, status : StatusAnswers,
   voltage : VoltageAnswers, load : LoadAnswers, serial : {<< >>},
   firmware : {<< >>}, strings : {DefaultStrings}]

\* What a CyberPower device may answer about itself: the descriptor index
\* reports 0x02 and 0x1b and its string descriptors
StringTables ==
  { DefaultStrings,
    [i \in 0 .. 6 |-> ""],
    [DefaultStrings EXCEPT ![0] = "LANG"],
    [DefaultStrings EXCEPT ![5] = "", ![4] = "v2", ![6] = "FW 2.0"] }
InfoAnswers ==
  [summary : {<< >>}, battery : {<< >>}, status : {<< >>, <<5>>},
   voltage : {<< >>}, load : {<< >>}, serial : {<< >>, <<0>>, <<2>>},
   firmware : {<< >>, <<0>>, <<5>>, <<0, 1, 2>>, <<67, 80, 49>>},
   strings : StringTables]

\* What a device may answer to the commands Q, f and P of the APC Smart decoder
SmartAnswers ==
  [status : {<< >>, <<"">>, <<"08">>, <<"10">>, <<"18">>, <<"ONLINE">>, <<"onbatt">>,
             <<"ONLINE ONBATT">>, <<"??">>},
   summary : {<< >>, <<"85">>, <<"100.0">>, <<"150">>, <<"-5">>, <<"n/a">>},
   load : {<< >>, <<"45.5">>, <<"200">>}]

HidProtocols == {"PROTOCOL_APC_HID", "PROTOCOL_CYBERPOWER_HID", "PROTOCOL_GENERIC_HID"}

\* active_protocol_->read_data
read_data(answers, data) ==
  CASE active_protocol_ = "PROTOCOL_APC_HID" -> ApcHid_read_data(answers, data)
    [] active_protocol_ = "PROTOCOL_CYBERPOWER_HID" -> CyberPower_read_data(answers, data)
    [] active_protocol_ = "PROTOCOL_GENERIC_HID" -> Generic_read_data(answers, data)
    [] active_protocol_ = "PROTOCOL_APC_SMART" -> ApcSmart_read_data(answers, data)
    [] OTHER -> [data |-> data, success |-> FALSE]

\* a read_ups_data that stores whatever the decoder left in the copy
KeepIfValid_always(r, data) ==
  [data |-> r.data, ok |-> r.success /\ is_valid(r.data), temp_data |-> r.data]

\* read_ups_data: what becomes of the copy the decoder filled; it is kept only
\* when the decoder reports success and the copy is valid
KeepIfValid(r, data) ==
  IF r.success /\ is_valid(r.data)
  THEN [data |-> r.data, ok |-> TRUE, temp_data |-> r.data]
  ELSE [data |-> data, ok |-> FALSE, temp_data |-> r.data]

\* read_ups_data
read_ups_data(answers, data) ==
  IF active_protocol_ = "none" THEN [data |-> data, ok |-> FALSE, temp_data |-> data]
  ELSE KeepIfValid(read_data(answers, data), data)

\* update_sensors, four of the numeric sinks, each holding the last value
\* published to it: a value is published unless it is NaN, and for the two
\* percentages unless it is outside [0, 100]
update_sensors(data, sinks) ==
  [ battery_level |->
      IF IsNaN(data.battery_level) \/ data.battery_level < Float(0)
           \/ data.battery_level > Float(100)
      THEN sinks.battery_level ELSE data.battery_level,
    input_voltage |->
      IF IsNaN(data.input_voltage) THEN sinks.input_voltage ELSE data.input_voltage,
    load_percent |->
      IF IsNaN(data.load_percent) \/ data.load_percent < Float(0)
           \/ data.load_percent > Float(100)
      THEN sinks.load_percent ELSE data.load_percent,
    runtime |->
      IF IsNaN(data.runtime_minutes) THEN sinks.runtime ELSE data.runtime_minutes ]

\* the sinks before anything is published
NoState ==
  [battery_level |-> NaN, input_voltage |-> NaN, load_percent |-> NaN, runtime |-> NaN]

\* update(): the record a cycle starts from; a reconnect sets the detected protocol
Detected ==
  IF connected_ THEN ups_data_
  ELSE [ups_data_ EXCEPT !.detected_protocol = active_protocol_]

\* protocol_timeout_ms_, its default; set_protocol_timeout keeps a configured
\* one within [5000, 300000]
\* the vendor ids looked up and the decoders that register themselves
VendorIds == {1133, 1899}
ProtocolNames == {"apc", "eaton", "generic"}
Priorities == {50, 100}
ProtocolInfos == [name : ProtocolNames, priority : Priorities]

Names(registry) == {registry[i].name : i \in DOMAIN registry}
Infos(registry) == {registry[i] : i \in DOMAIN registry}

\* the registry left unsorted
Sorted_appended(registry) == {registry}
\* std::sort by priority, higher first: the order of two entries of equal
\* priority is whatever the sort leaves
Sorted(registry) ==
  {s \in [DOMAIN registry -> Infos(registry)] :
      /\ Infos(s) = Infos(registry)
      /\ \A i, j \in DOMAIN s : i < j => s[i].priority >= s[j].priority}

\* the first entry of a registry whose decoder is created and detects, "none"
\* when the loop runs to its end
FirstDetecting(registry, detects) ==
  IF \E i \in DOMAIN registry : registry[i].name \in detects
  THEN registry[CHOOSE i \in DOMAIN registry :
                  /\ registry[i].name \in detects
                  /\ \A j \in DOMAIN registry : registry[j].name \in detects => i <= j].name
  ELSE "none"

\* create_for_vendor(vendor_id, parent) with a parent: the name of the decoder
\* returned, "none" for nullptr
create_for_vendor(vendor_id, detects) ==
  IF FirstDetecting(vendor_registry[vendor_id], detects) # "none"
  THEN FirstDetecting(vendor_registry[vendor_id], detects)
  ELSE FirstDetecting(fallback_registry, detects)

RATE_LIMIT_MS == 5000
MAX_BURST == 3
\* struct ErrorRateLimit, as constructed
ErrorRateLimit == [last_error_time |-> 0, error_count |-> 0, suppressed_count |-> 0]

\* should_log_error(limiter) at millis() = now: the limiter after the call
\* and the value returned
should_log_error(limiter, now) ==
  LET window == IF U32SubGt(now, limiter.last_error_time, RATE_LIMIT_MS)
                THEN [last_error_time |-> now, error_count |-> 0, suppressed_count |-> 0]
                ELSE limiter
      counted == [window EXCEPT !.error_count = @ + 1]
  IN  IF counted.error_count <= MAX_BURST
      THEN [limiter |-> counted, log |-> TRUE]
      ELSE [limiter |-> [counted EXCEPT !.suppressed_count = @ + 1], log |-> FALSE]

protocol_timeout_ms_ == 10000

\* update(): millis() - last_successful_read_ > protocol_timeout_ms_
CommunicationTimeout ==
  U32SubGt(clock, last_successful_read_, protocol_timeout_ms_)

\* a counter the communication timeout does not reset
FailuresAfter_kept(ok, timed_out) ==
  IF ok THEN 0 ELSE consecutive_failures_ + 1

\* update(): consecutive_failures_ after the read. A successful read resets it, a
\* failed one counts, and the communication timeout resets it again. From the
\* third failure to the fifth (max_consecutive_failures_) detect_ups_protocol
\* runs again, beyond that nothing is tried: the detection replaces
\* active_protocol_ only by the decoder it finds, taken to be the one of the
\* device as before, and leaves it alone when it finds none.
FailuresAfter(ok, timed_out) ==
  IF ok \/ timed_out THEN 0 ELSE consecutive_failures_ + 1

\* UpsHidComponent::update past the read, r being what read_ups_data returned:
\* the sinks are updated whether or not the read succeeded
UpsHidAfterRead(r, timed_out) ==
  /\ FailuresAfter(r.ok, timed_out) <= MaxFailures
  /\ ups_data_' = r.data
  /\ connected_' = (r.ok \/ ~timed_out)
  /\ consecutive_failures_' = FailuresAfter(r.ok, timed_out)
  /\ last_successful_read_' = IF r.ok THEN clock ELSE last_successful_read_
  /\ sensors_' = update_sensors(r.data, sensors_)

\* UpsHidComponent::update with a HID decoder active. A record waiting in the
\* asynchronous cache is not modelled; timed_out is
\* millis() - last_successful_read_ > protocol_timeout_ms_.
\* Report 0x06 is an input of the generic decoder only.
\* When not connected the detection is taken to succeed: a failed one returns
\* with nothing changed.
Update(answers, timed_out) ==
  /\ ~component_failed
  /\ active_protocol_ \in HidProtocols
  /\ answers.battery # << >> => active_protocol_ = "PROTOCOL_GENERIC_HID"
  /\ UpsHidAfterRead(read_ups_data(answers, Detected), timed_out)
  /\ last' = Obs("update")
  /\ detect_failures' = 0
  /\ UNCHANGED <<nutVars, device_connected_, usb_device_, transfer_, active_protocol_,
                 component_failed, protocol_error_limiter_, admitted, vendor_registry, fallback_registry, usb_mutex_, task_call, lockVars>>

\* update() of either component while not connected, when detect_ups_protocol
\* finds no decoder: it returns at once. The framework calls update() on no
\* component that is marked failed.
UpdateUndetected ==
  /\ ~component_failed
  /\ ~connected_
  /\ detect_failures < MaxFailures
  /\ detect_failures' = detect_failures + 1
  /\ last' = Obs("undetected")
  /\ UNCHANGED <<nutVars, coreVars, device_connected_, usb_device_, transfer_,
                 consecutive_failures_, last_successful_read_, component_failed, protocol_error_limiter_, admitted, vendor_registry, fallback_registry, usb_mutex_, task_call, lockVars>>

\* NutUpsComponent::update past the read: the sinks are updated only after a
\* successful read
NutUpsAfterRead(r, timed_out) ==
  /\ FailuresAfter(r.ok, timed_out) <= MaxFailures
  /\ ups_data_' = r.data
  /\ connected_' = (r.ok \/ ~timed_out)
  /\ consecutive_failures_' = FailuresAfter(r.ok, timed_out)
  /\ last_successful_read_' = IF r.ok THEN clock ELSE last_successful_read_
  /\ sensors_' = IF r.ok THEN update_sensors(r.data, sensors_) ELSE sensors_

\* NutUpsComponent::update with the APC Smart decoder active. The component
\* keeps a record and sinks of its own; an installation has one of the two
\* components, and the model holds either's in ups_data_ and sensors_.
NutUpsUpdate(answers, timed_out) ==
  /\ ~component_failed
  /\ active_protocol_ = "PROTOCOL_APC_SMART"
  /\ NutUpsAfterRead(read_ups_data(answers, Detected), timed_out)
  /\ last' = Obs("update")
  /\ detect_failures' = 0
  /\ UNCHANGED <<nutVars, device_connected_, usb_device_, transfer_, active_protocol_,
                 component_failed, protocol_error_limiter_, admitted, vendor_registry, fallback_registry, usb_mutex_, task_call, lockVars>>

\* read_ups_data, what it leaves: the shared record, and for the observation
\* the device's answers, the result and the local copy the decoder filled
ReadUpsDataStep(r, answers) ==
  /\ ups_data_' = r.data
  /\ last' = [Obs("read") EXCEPT !.answers = answers, !.ok = r.ok,
                                  !.temp_data = r.temp_data]

\* one call of UpsHidComponent::read_ups_data with a HID decoder active: a full
\* decode cycle
ReadUpsData(answers) ==
  /\ active_protocol_ \in HidProtocols
  /\ answers.battery # << >> => active_protocol_ = "PROTOCOL_GENERIC_HID"
  /\ answers \in InfoAnswers => active_protocol_ = "PROTOCOL_CYBERPOWER_HID"
  /\ ReadUpsDataStep(read_ups_data(answers, ups_data_), answers)
  /\ UNCHANGED <<nutVars, usbVars, connected_, active_protocol_, sensors_>>

\* UpsData::reset on the shared record, in place
ResetData ==
  /\ active_protocol_ # "none"
  /\ ups_data_' = UpsData_reset(ups_data_)
  /\ last' = Obs("reset")
  /\ UNCHANGED <<nutVars, usbVars, connected_, active_protocol_, sensors_>>

-----------------------------------------------------------------------------
(* USB transport: the synchronous transfer calls *)

\* what a transfer call allocates, by the name the source gives it
Resources ==
  {"transfer_out", "out_ctx.done_sem", "transfer_in", "in_ctx.done_sem",
   "transfer", "ctx.done_sem"}

Transfers == {"transfer_out", "transfer_in", "transfer"}

NoneOf == [r \in Resources |-> 0]

\* no transfer call has been made yet. allocated and released count, per
\* resource, the allocations and the releases of the current call; in_flight is
\* the transfer submitted to the host and not completed; given is the state of
\* its done_sem; abandoned are the transfers freed while in flight, which the
\* host still holds
NoTransfer ==
  [ call |-> "none", pc |-> "idle", declared |-> 0, timeout_ms |-> 0,
    elapsed |-> 0, ret |-> "ESP_OK", allocated |-> NoneOf, released |-> NoneOf,
    in_flight |-> "none", given |-> FALSE, result |-> "ESP_OK",
    abandoned |-> {} ]

\* the USB device once enumerated and opened
OpenedDevice(has_out) ==
  [dev_hdl |-> TRUE, client_hdl |-> TRUE, ep_in |-> TRUE, ep_out |-> has_out]

\* std::clamp
Clamp(v, lo, hi) == IF v < lo THEN lo ELSE IF v > hi THEN hi ELSE v

Min(a, b) == IF a < b THEN a ELSE b

\* a call begins: what the previous call left of its own is gone, what the host
\* still holds is not
BeginCall(t, call, declared, timeout_ms) ==
  [NoTransfer EXCEPT !.call = call, !.declared = declared,
                     !.timeout_ms = timeout_ms, !.abandoned = t.abandoned]

\* usb_host_transfer_alloc, xSemaphoreCreateBinary
Allocate(t, r) == [t EXCEPT !.allocated[r] = @ + 1]

\* vSemaphoreDelete
SemaphoreDelete(t, r) == [t EXCEPT !.released[r] = @ + 1]

\* usb_host_transfer_free: the transfer is freed at once, whether or not the
\* host has completed it
TransferFree(t, r) ==
  [t EXCEPT !.released[r] = @ + 1,
            !.in_flight = IF @ = r THEN "none" ELSE @,
            !.abandoned = IF t.in_flight = r THEN @ \cup {r} ELSE @]

\* return ret
Return(t, ret) == [t EXCEPT !.pc = "returned", !.ret = ret]

\* usb_host_transfer_submit succeeded: the caller blocks in xSemaphoreTake
Submitted(t, transfer, pc) ==
  [t EXCEPT !.pc = pc, !.in_flight = transfer, !.given = FALSE]

\* usb_transfer_sync, one phase up to its wait: the semaphore is created first,
\* then the transfer is allocated and submitted
SyncPhase(t, transfer, sem, pc, setup) ==
  IF setup = "no_semaphore" THEN Return(t, "ESP_ERR_NO_MEM")
  ELSE IF setup = "no_transfer"
  THEN Return(SemaphoreDelete(Allocate(t, sem), sem), "ESP_ERR_NO_MEM")
  ELSE IF setup = "not_submitted"
  THEN Return(SemaphoreDelete(TransferFree(Allocate(Allocate(t, sem), transfer),
                                           transfer), sem), "ESP_FAIL")
  ELSE Submitted(Allocate(Allocate(t, sem), transfer), transfer, pc)

\* usb_transfer_sync from the IN phase on
SyncInPhase(t, setup) ==
  IF usb_device_.ep_in
  THEN SyncPhase(t, "transfer_in", "in_ctx.done_sem", "wait_in", setup)
  ELSE Return(t, t.ret)

\* UpsHidComponent::usb_transfer_sync up to its first wait. data_out is whether
\* the caller passed data to send, too_large whether it exceeds four packets.
usb_transfer_sync(t, timeout_ms, data_out, too_large, setup) ==
  IF ~device_connected_ \/ ~usb_device_.dev_hdl
  THEN Return(BeginCall(t, "usb_transfer_sync", timeout_ms, 0), "ESP_ERR_INVALID_STATE")
  ELSE IF data_out /\ usb_device_.ep_out
  THEN IF too_large
       THEN Return(BeginCall(t, "usb_transfer_sync", timeout_ms,
                             Clamp(timeout_ms, 100, 30000)), "ESP_ERR_INVALID_SIZE")
       ELSE SyncPhase(BeginCall(t, "usb_transfer_sync", timeout_ms,
                                Clamp(timeout_ms, 100, 30000)),
                      "transfer_out", "out_ctx.done_sem", "wait_out", setup)
  ELSE SyncInPhase(BeginCall(t, "usb_transfer_sync", timeout_ms,
                             Clamp(timeout_ms, 100, 30000)), setup)

\* a setup that leaves without freeing the transfer when no semaphore could be
\* created
HidControl_leak(t, setup) ==
  IF setup = "no_transfer" THEN Return(t, "ESP_ERR_NO_MEM")
  ELSE IF setup = "no_semaphore"
  THEN Return(Allocate(t, "transfer"), "ESP_ERR_NO_MEM")
  ELSE IF setup = "not_submitted"
  THEN Return(SemaphoreDelete(TransferFree(
                Allocate(Allocate(t, "transfer"), "ctx.done_sem"),
                "transfer"), "ctx.done_sem"), "ESP_FAIL")
  ELSE Submitted(Allocate(Allocate(t, "transfer"), "ctx.done_sem"),
                 "transfer", "wait")

\* hid_get_report and hid_set_report past their argument check, up to the wait:
\* the transfer is allocated first, then the semaphore; the wait is the fixed
\* one of the call
HidControl(t, setup) ==
  IF setup = "no_transfer" THEN Return(t, "ESP_ERR_NO_MEM")
  ELSE IF setup = "no_semaphore"
  THEN Return(TransferFree(Allocate(t, "transfer"), "transfer"), "ESP_ERR_NO_MEM")
  ELSE IF setup = "not_submitted"
  THEN Return(SemaphoreDelete(TransferFree(
                Allocate(Allocate(t, "transfer"), "ctx.done_sem"),
                "transfer"), "ctx.done_sem"), "ESP_FAIL")
  ELSE Submitted(Allocate(Allocate(t, "transfer"), "ctx.done_sem"),
                 "transfer", "wait")

\* UpsHidComponent::hid_get_report up to its wait: no timeout is passed to it, it
\* waits 250 ms; without a client handle the transfer is not submitted
hid_get_report(t, setup) ==
  IF ~device_connected_ \/ ~usb_device_.dev_hdl
  THEN Return(BeginCall(t, "hid_get_report", 0, 0), "ESP_ERR_INVALID_ARG")
  ELSE HidControl(BeginCall(t, "hid_get_report", 0, 250),
                  IF setup = "submitted" /\ ~usb_device_.client_hdl
                  THEN "not_submitted" ELSE setup)

\* UpsHidComponent::hid_set_report up to its wait: it waits 5000 ms
hid_set_report(t, setup) ==
  IF ~device_connected_ \/ ~usb_device_.dev_hdl
  THEN Return(BeginCall(t, "hid_set_report", 0, 0), "ESP_ERR_INVALID_ARG")
  ELSE HidControl(BeginCall(t, "hid_set_report", 0, 5000), setup)

\* the semaphore of a transfer
SemOf(transfer) ==
  CASE transfer = "transfer_out" -> "out_ctx.done_sem"
    [] transfer = "transfer_in" -> "in_ctx.done_sem"
    [] OTHER -> "ctx.done_sem"

\* the transfer a blocked caller waits for
Awaited(t) ==
  CASE t.pc = "wait_out" -> "transfer_out"
    [] t.pc = "wait_in" -> "transfer_in"
    [] OTHER -> "transfer"

\* past the wait of a call: the transfer is freed and the semaphore deleted, and
\* but for a successful OUT phase of usb_transfer_sync the call returns
AfterWait(t, ret, setup) ==
  IF t.pc = "wait_out" /\ ret = "ESP_OK"
  THEN SyncInPhase([SemaphoreDelete(TransferFree(t, Awaited(t)), SemOf(Awaited(t)))
                      EXCEPT !.ret = ret], setup)
  ELSE Return(SemaphoreDelete(TransferFree(t, Awaited(t)), SemOf(Awaited(t))), ret)

Waiting(t) == t.pc \in {"wait_out", "wait_in", "wait"}

\* a task calls usb_transfer_sync
UsbTransferSync(timeout_ms, data_out, too_large, setup) ==
  /\ ~Waiting(transfer_)
  /\ transfer_' = usb_transfer_sync(transfer_, timeout_ms, data_out, too_large, setup)
  /\ last' = Obs("usb_transfer_sync")
  /\ UNCHANGED <<nutVars, coreVars, device_connected_, usb_device_,
                 consecutive_failures_, last_successful_read_, component_failed, detect_failures, protocol_error_limiter_, admitted, vendor_registry, fallback_registry, usb_mutex_, task_call, lockVars>>

\* a decoder calls hid_get_report
HidGetReport(setup) ==
  /\ ~Waiting(transfer_)
  /\ transfer_' = hid_get_report(transfer_, setup)
  /\ last' = Obs("hid_get_report")
  /\ UNCHANGED <<nutVars, coreVars, device_connected_, usb_device_,
                 consecutive_failures_, last_successful_read_, component_failed, detect_failures, protocol_error_limiter_, admitted, vendor_registry, fallback_registry, usb_mutex_, task_call, lockVars>>

\* a decoder calls hid_set_report
HidSetReport(setup) ==
  /\ ~Waiting(transfer_)
  /\ transfer_' = hid_set_report(transfer_, setup)
  /\ last' = Obs("hid_set_report")
  /\ UNCHANGED <<nutVars, coreVars, device_connected_, usb_device_,
                 consecutive_failures_, last_successful_read_, component_failed, detect_failures, protocol_error_limiter_, admitted, vendor_registry, fallback_registry, usb_mutex_, task_call, lockVars>>

\* usb_transfer_callback on the USB task, for the transfer the caller waits
\* for, waited milliseconds into the wait: the result is stored through the
\* context and the semaphore given; nothing is freed
UsbTransferCallback(completed, waited) ==
  /\ Waiting(transfer_)
  /\ transfer_.in_flight = Awaited(transfer_)
  /\ waited < transfer_.timeout_ms
  /\ transfer_' = [transfer_ EXCEPT
                     !.result = IF completed THEN "ESP_OK" ELSE "ESP_FAIL",
                     !.given = TRUE, !.in_flight = "none",
                     !.elapsed = @ + waited]
  /\ last' = Obs("usb_transfer_callback")
  /\ UNCHANGED <<nutVars, coreVars, device_connected_, usb_device_,
                 consecutive_failures_, last_successful_read_, component_failed, detect_failures, protocol_error_limiter_, admitted, vendor_registry, fallback_registry, usb_mutex_, task_call, lockVars>>

\* xSemaphoreTake returns pdTRUE: the caller goes on with the stored result
CallerWake(setup) ==
  /\ Waiting(transfer_)
  /\ transfer_.given
  /\ transfer_' = AfterWait(transfer_, transfer_.result, setup)
  /\ last' = Obs("wake")
  /\ UNCHANGED <<nutVars, coreVars, device_connected_, usb_device_,
                 consecutive_failures_, last_successful_read_, component_failed, detect_failures, protocol_error_limiter_, admitted, vendor_registry, fallback_registry, usb_mutex_, task_call, lockVars>>

\* xSemaphoreTake returns pdFALSE after the whole wait
CallerTimeout ==
  /\ Waiting(transfer_)
  /\ ~transfer_.given
  /\ transfer_' = AfterWait([transfer_ EXCEPT !.elapsed = @ + transfer_.timeout_ms],
                            "ESP_ERR_TIMEOUT", "submitted")
  /\ last' = Obs("timeout")
  /\ UNCHANGED <<nutVars, coreVars, device_connected_, usb_device_,
                 consecutive_failures_, last_successful_read_, component_failed, detect_failures, protocol_error_limiter_, admitted, vendor_registry, fallback_registry, usb_mutex_, task_call, lockVars>>

\* what the completion of a transfer freed while in flight may do: the host
\* reads the freed transfer, and usb_transfer_callback the context in the stack
\* frame of a call that has returned
LateOutcomes == {"ignored", "stale_write", "crash"}

\* the host completes a transfer its caller has freed
LateCompletion(transfer, outcome) ==
  /\ transfer \in transfer_.abandoned
  /\ transfer_' = [transfer_ EXCEPT !.abandoned = @ \ {transfer}]
  /\ last' = [Obs("late_completion") EXCEPT !.outcome = outcome]
  /\ UNCHANGED <<nutVars, coreVars, device_connected_, usb_device_,
                 consecutive_failures_, last_successful_read_, component_failed, detect_failures, protocol_error_limiter_, admitted, vendor_registry, fallback_registry, usb_mutex_, task_call, lockVars>>

\* NutUpsComponent::usb_transfer_sync, one phase: no callback and no semaphore,
\* the caller sleeps the whole delay and then frees the transfer, completed or not
NutPhase(t, transfer, delay, phase) ==
  IF phase = "no_transfer" THEN Return(t, "ESP_ERR_NO_MEM")
  ELSE IF phase = "not_submitted"
  THEN [TransferFree(Allocate(t, transfer), transfer) EXCEPT !.ret = "ESP_FAIL"]
  ELSE [TransferFree([Allocate(t, transfer) EXCEPT
                        !.in_flight = IF phase = "completed" THEN "none" ELSE transfer,
                        !.elapsed = @ + delay],
                     transfer) EXCEPT !.ret = "ESP_OK"]

\* NutUpsComponent::usb_transfer_sync from the IN phase on
NutInPhase(t, phase) ==
  IF t.pc = "returned" \/ t.ret # "ESP_OK" THEN Return(t, t.ret)
  ELSE IF usb_device_.ep_in
  THEN Return(NutPhase(t, "transfer_in", t.timeout_ms, phase),
              NutPhase(t, "transfer_in", t.timeout_ms, phase).ret)
  ELSE Return(t, t.ret)

\* NutUpsComponent::usb_transfer_sync
nut_usb_transfer_sync(t, timeout_ms, data_out, too_large, out, in) ==
  IF ~device_connected_ \/ ~usb_device_.dev_hdl
  THEN Return(BeginCall(t, "nut_usb_transfer_sync", timeout_ms, 0),
              "ESP_ERR_INVALID_STATE")
  ELSE IF data_out /\ usb_device_.ep_out
  THEN IF too_large
       THEN Return(BeginCall(t, "nut_usb_transfer_sync", timeout_ms,
                             Clamp(timeout_ms, 100, 30000)), "ESP_ERR_INVALID_SIZE")
       ELSE NutInPhase(NutPhase(BeginCall(t, "nut_usb_transfer_sync", timeout_ms,
                                          Clamp(timeout_ms, 100, 30000)),
                                "transfer_out",
                                Min(Clamp(timeout_ms, 100, 30000), 1000), out),
                       in)
  ELSE NutInPhase(BeginCall(t, "nut_usb_transfer_sync", timeout_ms,
                            Clamp(timeout_ms, 100, 30000)), in)

\* how a phase of NutUpsComponent::usb_transfer_sync may go
PhaseOutcomes == {"no_transfer", "not_submitted", "completed", "pending"}

\* how far the setup of a waited transfer may get
SetupOutcomes == {"no_semaphore", "no_transfer", "not_submitted", "submitted"}

\* a task calls NutUpsComponent::usb_transfer_sync, which blocks no other way
\* than by sleeping
NutUsbTransferSync(timeout_ms, data_out, too_large, out, in) ==
  /\ ~Waiting(transfer_)
  /\ transfer_' = nut_usb_transfer_sync(transfer_, timeout_ms, data_out, too_large,
                                        out, in)
  /\ last' = Obs("nut_usb_transfer_sync")
  /\ UNCHANGED <<nutVars, coreVars, device_connected_, usb_device_,
                 consecutive_failures_, last_successful_read_, component_failed, detect_failures, protocol_error_limiter_, admitted, vendor_registry, fallback_registry, usb_mutex_, task_call, lockVars>>

\* usb_client_event_callback, USB_HOST_CLIENT_EVENT_DEV_GONE for the opened
\* device (UpsHidComponent and NutUpsComponent alike)
DevGone ==
  /\ usb_device_.dev_hdl
  /\ device_connected_' = FALSE
  /\ usb_device_' = [usb_device_ EXCEPT !.dev_hdl = FALSE]
  /\ last' = Obs("dev_gone")
  /\ UNCHANGED <<nutVars, coreVars, transfer_, consecutive_failures_,
                 last_successful_read_, component_failed, detect_failures, protocol_error_limiter_, admitted, vendor_registry, fallback_registry, usb_mutex_, task_call, lockVars>>

\* the tasks that reach the USB device: the main loop (update() and the
\* decoders), the NUT server task (instant commands) and the USB client task
\* (usb_client_event_callback)
Tasks == {"loop", "nut_server", "usb_client"}
NoCall == [call |-> "none", pc |-> "idle"]
\* a task outside every function that takes data_mutex_, the cache mutex or
\* clients_mutex_; local is the UpsData the function holds on its stack, arg
\* the socket accept() returned or the slot a loop over clients_ has reached
NoStep == [fn |-> "none", pc |-> "idle", local |-> UpsData, arg |-> 0]
\* the constructors: every mutex free, the cache invalid (ups_hid.h:144-145);
\* start_server has created the server task
InitLocks ==
  /\ data_mutex_ = "free"
  /\ ups_data_cache_ = [data |-> UpsData, mutex |-> "free", data_valid |-> FALSE]
  /\ clients_mutex_ = "free"
  /\ server_running_ = TRUE
  /\ server_task_handle_ = "running"
  /\ task_step = [t \in Tasks |-> NoStep]

\* the timeouts a caller declares
DeclaredTimeouts == {50, 40000}

\* the USB side before any transfer: the device enumerated and opened
InitUsb(has_out) ==
  /\ device_connected_ = TRUE
  /\ usb_device_ = OpenedDevice(has_out)
  /\ transfer_ = NoTransfer
  /\ consecutive_failures_ = 0
  /\ last_successful_read_ = 0
  /\ component_failed = FALSE
  /\ detect_failures = 0
  /\ protocol_error_limiter_ = ErrorRateLimit
  /\ admitted = << >>
  /\ vendor_registry = [vid \in VendorIds |-> << >>]
  /\ fallback_registry = << >>
  /\ usb_mutex_ = "free"
  /\ task_call = [t \in Tasks |-> NoCall]
  /\ InitLocks

\* the USB side where no device is involved
NoUsb ==
  /\ device_connected_ = FALSE
  /\ usb_device_ = [OpenedDevice(FALSE) EXCEPT !.dev_hdl = FALSE, !.ep_in = FALSE]
  /\ transfer_ = NoTransfer
  /\ consecutive_failures_ = 0
  /\ last_successful_read_ = 0
  /\ component_failed = FALSE
  /\ detect_failures = 0
  /\ protocol_error_limiter_ = ErrorRateLimit
  /\ admitted = << >>
  /\ vendor_registry = [vid \in VendorIds |-> << >>]
  /\ fallback_registry = << >>
  /\ usb_mutex_ = "free"
  /\ task_call = [t \in Tasks |-> NoCall]
  /\ InitLocks

\* NutServerComponent::setup over a simulated UPS core
Init ==
  /\ clients_ = [i \in Slots |-> NutClient]
  /\ openSockets = {}
  /\ resetSockets = {}
  /\ list_var = NoListVar
  /\ clock = 0
  /\ loop_now = 0
  /\ loop_pc = "idle"
  /\ password_ \in {"", SecretPassword}
  /\ connected_ = TRUE
  /\ ups_data_ = SimulatedData
  /\ active_protocol_ = "none"
  /\ sensors_ = NoState
  /\ failed_logins = [i \in Slots |-> 0]
  /\ NoUsb
  /\ last = Obs("init")

\* The protocol: what the server answers, time standing still
Next ==
  \/ AcceptClients
  \/ \E i \in Slots, inp \in Inputs : HandleClientData(i, inp.chunk, inp.ok)
  \/ \E i \in Slots : HandleClientGone(i)
  \/ SimulateConnection

Spec == Init /\ [][Next]_vars

\* The slots' lifecycle: accepts, disconnects and the idle cleanup as time passes
NextSlots ==
  \/ AcceptClients
  \/ \E i \in Slots, inp \in SlotInputs : HandleClientData(i, inp.chunk, inp.ok)
  \/ \E i \in Slots : HandleClientGone(i)
  \/ CleanupReadNow
  \/ CleanupScan
  \/ Tick

SpecSlots == Init /\ [][NextSlots]_vars

\* loop() runs on every pass of the main loop, so a cleanup pass that can start
\* starts and one that has read the clock finishes
FairSlots == SpecSlots /\ WF_vars(CleanupReadNow) /\ WF_vars(CleanupScan)

\* setup() after a successful detection: the record is empty but for the
\* protocol detection found, nothing is published yet, no NUT client is connected
InitData ==
  /\ clients_ = [i \in Slots |-> NutClient]
  /\ openSockets = {}
  /\ resetSockets = {}
  /\ list_var = NoListVar
  /\ clock = 0
  /\ loop_now = 0
  /\ loop_pc = "idle"
  /\ password_ = ""
  /\ connected_ = TRUE
  /\ active_protocol_ \in HidProtocols \cup {"PROTOCOL_APC_SMART"}
  /\ ups_data_ = [UpsData EXCEPT !.detected_protocol = active_protocol_]
  /\ sensors_ = NoState
  /\ failed_logins = [i \in Slots |-> 0]
  /\ InitUsb(TRUE)
  /\ last = Obs("init")

\* What the device answers cycle after cycle; the battery status report of the
\* generic decoder is an input of the single decode cycle only
PolledAnswers == {a \in HidAnswers : a.battery = << >>}

\* The polling cycle of the UPS core over a real device, at any time since the
\* last successful read; whether the communication has timed out matters only
\* to a cycle whose read fails, which then leaves the core disconnected
NextData ==
  \/ \E answers \in PolledAnswers, timed_out \in BOOLEAN :
        /\ Update(answers, timed_out)
        /\ timed_out => ~connected_'
  \/ \E answers \in SmartAnswers, timed_out \in BOOLEAN :
        /\ NutUpsUpdate(answers, timed_out)
        /\ timed_out => ~connected_'
  \/ ResetData

SpecData == InitData /\ [][NextData]_vars

\* What the device answered in the cycle before the one looked at
EarlierAnswers ==
  { NoAnswers,
    [NoAnswers EXCEPT !.summary = <<85, 35, 0>>],
    [NoAnswers EXCEPT !.status = <<12, 1>>, !.load = <<45>>],
    [NoAnswers EXCEPT !.summary = <<85, 35, 0>>, !.voltage = <<230, 0>>,
                      !.load = <<45>>] }

\* The record a decode cycle starts from: empty but for the detected protocol, or
\* as an earlier cycle left it
InitCycle ==
  /\ clients_ = [i \in Slots |-> NutClient]
  /\ openSockets = {}
  /\ resetSockets = {}
  /\ list_var = NoListVar
  /\ clock = 0
  /\ loop_now = 0
  /\ loop_pc = "idle"
  /\ password_ = ""
  /\ connected_ = TRUE
  /\ active_protocol_ \in HidProtocols
  /\ ups_data_ \in
       { read_ups_data(a, [UpsData EXCEPT !.detected_protocol = active_protocol_]).data :
           a \in EarlierAnswers }
  /\ sensors_ = NoState
  /\ failed_logins = [i \in Slots |-> 0]
  /\ InitUsb(TRUE)
  /\ last = Obs("init")

\* One decode cycle, whatever the device answers
NextCycle ==
  /\ last.kind = "init"
  /\ \E answers \in HidAnswers \cup InfoAnswers : ReadUpsData(answers)

SpecCycle == InitCycle /\ [][NextCycle]_vars

\* A device opened and its decoder detected, no transfer made yet
InitTransfer ==
  /\ clients_ = [i \in Slots |-> NutClient]
  /\ openSockets = {}
  /\ resetSockets = {}
  /\ list_var = NoListVar
  /\ clock = 0
  /\ loop_now = 0
  /\ loop_pc = "idle"
  /\ password_ = ""
  /\ connected_ = TRUE
  /\ active_protocol_ = "PROTOCOL_APC_HID"
  /\ ups_data_ = [UpsData EXCEPT !.detected_protocol = active_protocol_]
  /\ sensors_ = NoState
  /\ failed_logins = [i \in Slots |-> 0]
  /\ \E has_out \in BOOLEAN : InitUsb(has_out)
  /\ last = Obs("init")

\* The transfer calls one after another, the completions the USB task delivers
\* and the departure of the device
NextTransfer ==
  \/ \E timeout_ms \in DeclaredTimeouts, data_out, too_large \in BOOLEAN,
          setup \in SetupOutcomes :
        UsbTransferSync(timeout_ms, data_out, too_large, setup)
  \/ \E setup \in SetupOutcomes : HidGetReport(setup)
  \/ \E setup \in SetupOutcomes : HidSetReport(setup)
  \/ \E completed \in BOOLEAN, waited \in {0, transfer_.timeout_ms - 1} :
        UsbTransferCallback(completed, waited)
  \/ \E setup \in SetupOutcomes : CallerWake(setup)
  \/ CallerTimeout
  \/ \E transfer \in Transfers, outcome \in LateOutcomes :
        LateCompletion(transfer, outcome)
  \/ \E timeout_ms \in DeclaredTimeouts, data_out, too_large \in BOOLEAN,
          out, in \in PhaseOutcomes :
        NutUsbTransferSync(timeout_ms, data_out, too_large, out, in)
  \/ DevGone

SpecTransfer == InitTransfer /\ [][NextTransfer]_vars

\* What the device answers in a cycle of the timed polling: nothing, or a power
\* summary
TimedAnswers ==
  {a \in PolledAnswers : a.status = << >> /\ a.voltage = << >> /\ a.load = << >>}

TimedSmartAnswers ==
  {a \in SmartAnswers : a.status \in {<< >>, <<"08">>} /\ a.summary \in {<< >>, <<"85">>}
                          /\ a.load = << >>}

\* setup() at millis() = 0: a decoder detected, or none, which leaves the core
\* disconnected
InitPoll ==
  /\ clients_ = [i \in Slots |-> NutClient]
  /\ openSockets = {}
  /\ resetSockets = {}
  /\ list_var = NoListVar
  /\ clock = 0
  /\ loop_now = 0
  /\ loop_pc = "idle"
  /\ password_ = ""
  /\ active_protocol_ \in {"PROTOCOL_APC_HID", "PROTOCOL_APC_SMART", "none"}
  /\ connected_ = (active_protocol_ # "none")
  /\ ups_data_ = [UpsData EXCEPT !.detected_protocol =
                    IF connected_ THEN active_protocol_ ELSE @]
  /\ sensors_ = NoState
  /\ failed_logins = [i \in Slots |-> 0]
  /\ InitUsb(TRUE)
  /\ last = Obs("init")

\* The polling cycle as time passes: whether the communication has timed out is
\* what the clock says
NextPoll ==
  \/ \E answers \in TimedAnswers : Update(answers, CommunicationTimeout)
  \/ \E answers \in TimedSmartAnswers : NutUpsUpdate(answers, CommunicationTimeout)
  \/ UpdateUndetected
  \/ Tick

SpecPoll == InitPoll /\ [][NextPoll]_vars

\* update() is called every update interval
FairPoll ==
  /\ SpecPoll
  /\ WF_vars(\E answers \in TimedAnswers : Update(answers, CommunicationTimeout))
  /\ WF_vars(\E answers \in TimedSmartAnswers :
               NutUpsUpdate(answers, CommunicationTimeout))

-----------------------------------------------------------------------------
(* Properties of the NUT server *)

GatedCommand(line) ==
  /\ line # << >>
  /\ ToUpper(Head(line)) \notin {"HELP", "VER", "VERSION", "NETVER", "STARTTLS", "USERNAME",
                                  "PASSWORD", "LOGIN", "LOGOUT", "UPSDVER"}

\* C1: with a password configured, a command outside HELP, VER/VERSION, NETVER,
\* STARTTLS, USERNAME, PASSWORD, LOGIN, LOGOUT, UPSDVER that comes from a client that
\* is not AUTHENTICATED is answered ERR ACCESS-DENIED and changes nothing but the
\* client's last_activity: no control call is made, no socket is closed, every
\* client record and the UPS data stay as they were.
C1_AuthGate ==
  [][ ( /\ last'.kind = "command"
        /\ password_ # ""
        /\ last'.pre # "AUTHENTICATED"
        /\ GatedCommand(last'.line) )
      => ( /\ last'.reply = "ERR ACCESS-DENIED\n"
           /\ last'.exec = ""
           /\ ~last'.closed
           /\ clients_' = [clients_ EXCEPT ![last'.slot].last_activity = clock]
           /\ openSockets' = openSockets
           /\ UNCHANGED coreVars ) ]_vars

C1_Witness ==
  /\ last.kind = "command"
  /\ password_ # ""
  /\ last.pre = "CONNECTED"
  /\ last.line = <<"INSTCMD", "ups", "beeper.enable">>
  /\ last.reply = "ERR ACCESS-DENIED\n"

\* C2: with a password configured, once a connection has made three failed
\* authentication attempts (LOGIN or PASSWORD not carrying the configured
\* credentials, in any mix, no success in between) its slot is inactive, holds no
\* descriptor, and the command that was the third failure closed the socket.
C2_ThreeFailuresClose ==
  \A i \in Slots :
    failed_logins[i] >= 3 =>
      /\ ~is_active(clients_[i])
      /\ clients_[i].socket_fd = -1
      /\ (last.kind = "command" /\ last.slot = i) => last.closed

C2_Witness ==
  /\ last.kind = "command"
  /\ last.line = <<"PASSWORD", "wrong">>
  /\ failed_logins[last.slot] = 3
  /\ last.closed
  /\ ~is_active(clients_[last.slot])

ActiveSlots == {i \in Slots : is_active(clients_[i])}

\* C3: the open client sockets are exactly the descriptors held by the active
\* slots, no two slots hold the same one, there are at most max_clients of them
\* (so a LIST CLIENTS reply has at most max_clients CLIENT lines), and an accept
\* only ever fills a slot that was inactive.
C3_SlotsInv ==
  /\ openSockets = {clients_[i].socket_fd : i \in ActiveSlots}
  /\ \A i, j \in ActiveSlots : clients_[i].socket_fd = clients_[j].socket_fd => i = j
  /\ Cardinality(openSockets) <= MaxClients
  /\ Cardinality(ActiveSlots) <= MaxClients

ListVarLine(line) ==
  /\ Len(line) = 3
  /\ ToUpper(line[1]) = "LIST"
  /\ ToUpper(line[2]) = "VAR"
  /\ line[3] = "ups"

\* the command reaches its handler: no password is configured or the client was
\* AUTHENTICATED when it sent the line
PassedGate == password_ = "" \/ last.pre = "AUTHENTICATED"

GetVarLine(line) ==
  /\ Len(line) = 4
  /\ ToUpper(line[1]) = "GET"
  /\ ToUpper(line[2]) = "VAR"
  /\ line[3] = "ups"

\* C5: while the UPS core is not connected, a GET VAR ups <var> that reaches its
\* handler is answered ERR DATA-STALE, whatever the variable.
C5_GetVarStale ==
  (last.kind = "command" /\ ~connected_ /\ GetVarLine(last.line) /\ PassedGate)
    => last.reply = "ERR DATA-STALE\n"

\* C6: every non-empty line a recv() takes off the socket is passed to
\* process_command (and so answered or the connection closed); none is discarded.
C6_NoLineDropped ==
  last.kind = "command" => last.handled = last.received

\* a client that has been silent for more than CLIENT_TIMEOUT_MS
Expired(i) ==
  is_active(clients_[i]) /\ clock - clients_[i].last_activity > 30000

\* C7: an active client silent for more than CLIENT_TIMEOUT_MS does not stay so:
\* it is disconnected (its slot DISCONNECTED), unless it speaks again first.
C7_IdleDisconnected ==
  \A i \in Slots :
    Expired(i) ~> ( \/ clients_[i].state = "DISCONNECTED"
                    \/ (is_active(clients_[i]) /\ ~Expired(i)) )

C7_Witness ==
  /\ last.kind = "cleanup"
  /\ last.closed
  /\ loop_now = clock
  /\ clock > 30000
  /\ \E i \in Slots : clients_[i].state = "DISCONNECTED"

-----------------------------------------------------------------------------
(* Properties of the decoders and of what is published *)

\* C8: in every snapshot a decoder produces, whatever the device answered,
\* ONLINE and ON_BATTERY are never both among the status flags.
C8_OnlineExcludesOnBattery ==
  ~({"ONLINE", "ON_BATTERY"} \subseteq ups_data_.status_flags)

\* C9: a reset of the record in place leaves detected_protocol as it was.
C9_ResetKeepsProtocol ==
  [][last'.kind = "reset" => ups_data_'.detected_protocol = ups_data_.detected_protocol]_vars

PercentTexts == {ToString(n) : n \in 0 .. 100}

\* C10: every battery level and load percentage published lies in [0, 100]:
\* the values the two sensor sinks were given, and the values the NUT server
\* answers for battery.charge and ups.load.
C10_PublishedInRange ==
  /\ \A t \in {"battery_level", "load_percent"} :
       IsNaN(sensors_[t]) \/ (sensors_[t] >= Float(0) /\ sensors_[t] <= Float(100))
  /\ \A v \in {"battery.charge", "ups.load"} :
       get_ups_var(v) \in {""} \cup PercentTexts

\* C11: after an update cycle, a decoded battery level or load percentage above
\* 100 has been published to its sensor sink as 100, and one below 0 as 0.
C11_ClampedPublished ==
  last.kind = "update" =>
    \A t \in {"battery_level", "load_percent"} :
      /\ FGt(ups_data_[t], Float(100)) => sensors_[t] = Float(100)
      /\ FLt(ups_data_[t], Float(0)) => sensors_[t] = Float(0)

\* C13: after an update cycle in which the device returned the raw input
\* voltage 0xFFFF, neither the input voltage sink nor the NUT variable
\* input.voltage carries the value made from that reading.
C13_NoVoltageFromFFFF ==
  [][ \A answers \in PolledAnswers, timed_out \in BOOLEAN :
        (Update(answers, timed_out) /\ answers.voltage = <<255, 255>>) =>
          /\ sensors_'.input_voltage # Float(65535)
          /\ get_ups_var("input.voltage")' # "65535.0" ]_vars

\* C14: after an update cycle in which the device reported a runtime of 0, the
\* runtime sink holds 0 and the NUT variable battery.runtime reads "0".
C14_RuntimeZeroPublished ==
  [][ \A answers \in PolledAnswers, timed_out \in BOOLEAN :
        (Update(answers, timed_out) /\ Len(answers.summary) = 3
           /\ answers.summary[2] = 0 /\ answers.summary[3] = 0) =>
          /\ sensors_'.runtime = Float(0)
          /\ get_ups_var("battery.runtime")' = "0" ]_vars

RealFields ==
  { "battery_level", "input_voltage", "output_voltage", "load_percent",
    "runtime_minutes", "frequency", "battery_voltage", "battery_voltage_nominal",
    "input_voltage_nominal", "input_transfer_low", "input_transfer_high",
    "ups_realpower_nominal", "output_voltage_nominal", "apparent_power_nominal" }

\* the reports a decoder takes the field from
Carriers(f) ==
  CASE f = "battery_level" -> {"summary", "battery"}
    [] f = "runtime_minutes" -> {"summary"}
    [] f \in {"input_voltage", "output_voltage"} -> {"voltage"}
    [] f = "load_percent" -> {"load"}
    [] OTHER -> {}

C15_IndexZeroNoString ==
  last.kind = "read" =>
    /\ (Len(last.answers.serial) >= 1 /\ last.answers.serial[1] = 0)
         => ups_data_.serial_number = ""
    /\ (Len(last.answers.firmware) >= 1 /\ last.answers.firmware[1] = 0)
         => ups_data_.firmware_version = ""

-----------------------------------------------------------------------------
(* Properties of the USB transport *)

\* the longest a call may keep its caller: the declared timeout clamped to
\* [100, 30000] ms, and for the two report calls, which are passed none, the
\* wait they are written with
Allowed(t) ==
  IF t.call \in {"usb_transfer_sync", "nut_usb_transfer_sync"}
  THEN Clamp(t.declared, 100, 30000)
  ELSE t.timeout_ms

\* C16: every transfer call has returned to its caller no later than the
\* timeout the caller declared for it, clamped to [100, 30000] ms, whether or
\* not the device completed the transfer.
C16_ReturnsWithinTimeout ==
  transfer_.pc = "returned" =>
    /\ transfer_.elapsed <= Allowed(transfer_)
    /\ Allowed(transfer_) <= 30000

\* C17: when the wait for a transfer times out the caller leaves the transfer
\* allocated, and the completion that arrives late is what releases it.
C17_ReleasedByLateCompletion ==
  [][ /\ last'.kind = "timeout" =>
           transfer_'.released[Awaited(transfer_)] =
             transfer_.released[Awaited(transfer_)]
      /\ last'.kind = "late_completion" =>
           \E r \in transfer_.abandoned \ transfer_'.abandoned :
             transfer_'.released[r] = transfer_.released[r] + 1 ]_vars

\* C18: a transfer call releases each transfer and each semaphore it allocated
\* exactly once: never more releases than allocations while it runs, and as
\* many when it has returned, whichever way it ends.
C18_ReleasedExactlyOnce ==
  \A r \in Resources :
    /\ transfer_.allocated[r] <= 1
    /\ transfer_.released[r] <= transfer_.allocated[r]
    /\ transfer_.pc = "returned" => transfer_.released[r] = transfer_.allocated[r]

C18_Witness ==
  /\ transfer_.pc = "returned"
  /\ transfer_.call = "usb_transfer_sync"
  /\ transfer_.ret = "ESP_ERR_TIMEOUT"
  /\ transfer_.allocated["transfer_out"] = 1
  /\ transfer_.released["out_ctx.done_sem"] = 1
  /\ transfer_.allocated["transfer_in"] = 1
  /\ transfer_.released["transfer_in"] = 1
  /\ transfer_.released["in_ctx.done_sem"] = 1

\* C19: once DEV_GONE has arrived for the opened device the connected flag of
\* the core is cleared and no decoder is active.
C19_DevGoneDropsDecoder ==
  [][ last'.kind = "dev_gone" =>
        /\ ~connected_'
        /\ active_protocol_' = "none" ]_vars

\* C20: once five reads in a row have failed no decoder is active any more.
C20_DroppedAfterFiveFailures ==
  (last.kind = "update" /\ consecutive_failures_ >= 5) => active_protocol_ = "none"

C22_FailedAfterDetectionFailures ==
  detect_failures > 5 => component_failed

----------------------------------------------------------------------------
\* The error rate limiter under event times chosen freely.

LimiterDelays == {2500, 2501}

\* one event reported through should_log_error(protocol_error_limiter_)
ShouldLogError ==
  LET r == should_log_error(protocol_error_limiter_, clock)
      times == Append(admitted, clock)
  IN  /\ r.limiter.error_count <= MaxEvents
      /\ protocol_error_limiter_' = r.limiter
      /\ admitted' = IF ~r.log THEN admitted
                     ELSE IF Len(times) > MAX_BURST + 1 THEN Tail(times) ELSE times
      /\ last' = [Obs("should_log_error") EXCEPT !.ok = r.log]
      /\ UNCHANGED <<nutVars, coreVars, device_connected_, usb_device_, transfer_,
                     consecutive_failures_, last_successful_read_, component_failed,
                     detect_failures, vendor_registry, fallback_registry, usb_mutex_,
                     task_call, lockVars>>

\* millis() advances between two events
Delay(ms) ==
  /\ clock + ms <= MaxEventTime
  /\ clock' = clock + ms
  /\ last' = Obs("delay")
  /\ UNCHANGED <<clients_, openSockets, resetSockets, loop_now, loop_pc, password_, list_var, failed_logins,
                 coreVars, usbVars>>

NextLimiter ==
  \/ ShouldLogError
  \/ \E ms \in LimiterDelays : Delay(ms)

SpecLimiter == InitPoll /\ [][NextLimiter]_vars

\* C23: no more than MAX_BURST (3) admissions fall inside an interval shorter
\* than RATE_LIMIT_MS (5000 ms): the oldest and the newest of any
\* MAX_BURST + 1 successive admissions are at least RATE_LIMIT_MS apart.
C23_BurstPerWindow ==
  Len(admitted) > MAX_BURST => admitted[Len(admitted)] - admitted[1] >= RATE_LIMIT_MS

----------------------------------------------------------------------------
\* The protocol factory: registrations and lookups.

Registered == UNION {Names(vendor_registry[vid]) : vid \in VendorIds} \cup Names(fallback_registry)

\* register_protocol_for_vendor(vendor_id, info), called once by each decoder
\* that registers itself
RegisterProtocolForVendor(vendor_id, info) ==
  /\ info.name \notin Registered
  /\ \E sorted \in Sorted(Append(vendor_registry[vendor_id], info)) :
        vendor_registry' = [vendor_registry EXCEPT ![vendor_id] = sorted]
  /\ last' = Obs("register")
  /\ UNCHANGED <<nutVars, coreVars, device_connected_, usb_device_, transfer_,
                 consecutive_failures_, last_successful_read_, component_failed,
                 detect_failures, protocol_error_limiter_, admitted, fallback_registry, usb_mutex_, task_call, lockVars>>

\* register_fallback_protocol(info)
RegisterFallbackProtocol(info) ==
  /\ info.name \notin Registered
  /\ fallback_registry' \in Sorted(Append(fallback_registry, info))
  /\ last' = Obs("register")
  /\ UNCHANGED <<nutVars, coreVars, device_connected_, usb_device_, transfer_,
                 consecutive_failures_, last_successful_read_, component_failed,
                 detect_failures, protocol_error_limiter_, admitted, vendor_registry, usb_mutex_, task_call, lockVars>>

\* one call of create_for_vendor; detects holds the decoders whose detect()
\* returns true on the attached device
CreateForVendor(vendor_id, detects) ==
  /\ last' = [Obs("create_for_vendor") EXCEPT
                !.vendor_id = vendor_id, !.detects = detects,
                !.outcome = create_for_vendor(vendor_id, detects)]
  /\ UNCHANGED <<nutVars, coreVars, usbVars>>

NextFactory ==
  \/ \E vendor_id \in VendorIds, info \in ProtocolInfos : RegisterProtocolForVendor(vendor_id, info)
  \/ \E info \in ProtocolInfos : RegisterFallbackProtocol(info)
  \/ \E vendor_id \in VendorIds, detects \in SUBSET ProtocolNames : CreateForVendor(vendor_id, detects)

SpecFactory == InitPoll /\ [][NextFactory]_vars

\* the entries of a registry that detect, and those ranked above a decoder
Detecting(registry) == {info \in Infos(registry) : info.name \in last.detects}
Above(registry, name) ==
  {info \in Infos(registry) :
     \E chosen \in Infos(registry) : chosen.name = name /\ info.priority > chosen.priority}

\* C24: create_for_vendor returns a decoder that detects and that no detecting
\* decoder of the same registry outranks; it is one registered for the vendor
\* whenever one of those detects, a fallback only when none of them does, and
\* nothing exactly when no decoder of either registry detects.
C24_FirstDetectingByPriority ==
  last.kind = "create_for_vendor" =>
    LET vendor == vendor_registry[last.vendor_id]
        name == last.outcome
    IN  /\ Detecting(vendor) # {} =>
              /\ name \in Names(vendor) /\ name \in last.detects
              /\ Above(vendor, name) \cap Detecting(vendor) = {}
        /\ (Detecting(vendor) = {} /\ Detecting(fallback_registry) # {}) =>
              /\ name \in Names(fallback_registry) /\ name \in last.detects
              /\ Above(fallback_registry, name) \cap Detecting(fallback_registry) = {}
        /\ (Detecting(vendor) = {} /\ Detecting(fallback_registry) = {}) <=> name = "none"

\* the vendor's only decoder fails, and of two fallbacks the lower one is returned
C24_Witness ==
  /\ last.kind = "create_for_vendor"
  /\ Len(vendor_registry[last.vendor_id]) > 0
  /\ Len(fallback_registry) > 1
  /\ fallback_registry[1].priority > fallback_registry[2].priority
  /\ last.outcome = fallback_registry[2].name

----------------------------------------------------------------------------
\* Clients whose connection breaks while a reply is written; the idle cleanup
\* is left aside.

PeerErrnos == {"ECONNRESET", "EPIPE"}

NextPeers ==
  \/ AcceptClients
  \/ \E i \in Slots, inp \in SlotInputs : HandleClientData(i, inp.chunk, inp.ok)
  \/ \E i \in Slots, inp \in SlotInputs, send_errno \in PeerErrnos :
        HandleClientSendFails(i, inp.chunk, inp.ok, send_errno)
  \/ \E i \in Slots : HandleClientGone(i)
  \/ Tick

SpecPeers == Init /\ [][NextPeers]_vars

\* the server task calls handle_client for every active slot on each pass, and
\* recv() on a connection whose peer is gone returns 0 or an error
FairPeers ==
  SpecPeers /\ \A i \in Slots : WF_vars(clients_[i].socket_fd \in resetSockets
                                         /\ HandleClientGone(i))

----------------------------------------------------------------------------
\* LIST VAR built variable by variable while the UPS core runs in its own
\* task: has_ups_data() and every get_ups_var() read the core anew.

InitListVar ==
  /\ clients_ = [i \in Slots |-> NutClient]
  /\ openSockets = {}
  /\ resetSockets = {}
  /\ list_var = NoListVar
  /\ clock = 0
  /\ loop_now = 0
  /\ loop_pc = "idle"
  /\ password_ = ""
  /\ connected_ = TRUE
  /\ ups_data_ \in {SimulatedData, UpsData}
  /\ active_protocol_ = "none"
  /\ sensors_ = NoState
  /\ failed_logins = [i \in Slots |-> 0]
  /\ NoUsb
  /\ last = Obs("init")

ListVarUnchanged ==
  UNCHANGED <<clients_, openSockets, resetSockets, clock, loop_now, loop_pc, password_,
              failed_logins, coreVars, usbVars>>

\* handle_list_var up to the loop: the two early returns, or the BEGIN line
ListVarBegin(args) ==
  /\ list_var.k = 0
  /\ IF JoinArgs(args) # get_ups_name
     THEN /\ list_var' = NoListVar
          /\ last' = [Obs("list_var") EXCEPT !.reply = "ERR UNKNOWN-UPS\n"]
     ELSE IF ~has_ups_data
     THEN /\ list_var' = NoListVar
          /\ last' = [Obs("list_var") EXCEPT !.reply = "ERR DATA-STALE\n"]
     ELSE /\ list_var' = [k |-> 1, response |->
               <<ListLine("BEGIN LIST VAR " \o get_ups_name \o "\n", "", "")>>]
          /\ last' = Obs("list_var_begin")
  /\ ListVarUnchanged

\* the line appended for a value even when it is empty
VarLine_always(var, value) ==
  <<ListLine("VAR " \o get_ups_name \o " " \o var \o " \"" \o value \o "\"\n", var, value)>>
\* one pass of the loop: the line appended for variable var
VarLine(var, value) ==
  IF value # ""
  THEN <<ListLine("VAR " \o get_ups_name \o " " \o var \o " \"" \o value \o "\"\n", var, value)>>
  ELSE << >>

ListVarStep ==
  /\ list_var.k \in 1..Len(ListVarNames)
  /\ list_var' = [k |-> list_var.k + 1,
                  response |-> list_var.response
                     \o VarLine(ListVarNames[list_var.k], get_ups_var(ListVarNames[list_var.k]))]
  /\ last' = Obs("list_var_step")
  /\ ListVarUnchanged

RECURSIVE Concat(_)
Concat(lines) == IF lines = << >> THEN "" ELSE Head(lines).text \o Concat(Tail(lines))

\* past the loop: the END line and send_response
ListVarEnd ==
  /\ list_var.k = Len(ListVarNames) + 1
  /\ LET response == Append(list_var.response,
                        ListLine("END LIST VAR " \o get_ups_name \o "\n", "", ""))
     IN  /\ list_var' = [k |-> 0, response |-> response]
         /\ last' = [Obs("list_var") EXCEPT !.reply = Concat(response)]
  /\ ListVarUnchanged

NextListVar ==
  \/ \E args \in {<<"ups">>, <<"other">>} : ListVarBegin(args)
  \/ ListVarStep
  \/ ListVarEnd
  \/ SimulateConnection

SpecListVar == InitListVar /\ [][NextListVar]_vars

StatusTokens ==
  << [flag |-> "ONLINE", tok |-> "OL"], [flag |-> "ON_BATTERY", tok |-> "OB"],
     [flag |-> "LOW_BATTERY", tok |-> "LB"], [flag |-> "CHARGING", tok |-> "CHRG"],
     [flag |-> "FAULT", tok |-> "ALARM"] >>

RECURSIVE TokensFrom(_, _)
TokensFrom(k, flags) ==
  IF k > Len(StatusTokens) THEN << >>
  ELSE (IF StatusTokens[k].flag \in flags THEN <<StatusTokens[k].tok>> ELSE << >>)
         \o TokensFrom(k + 1, flags)

RECURSIVE Spaced(_)
Spaced(toks) ==
  IF toks = << >> THEN ""
  ELSE IF Len(toks) = 1 THEN toks[1]
  ELSE toks[1] \o " " \o Spaced(Tail(toks))

\* C27: with the core connected, ups.status is the tokens OL, OB, LB, CHRG,
\* ALARM of exactly the flags set in the record, in this order and separated
\* by single spaces; it is empty when none of these flags is set.
C27_StatusTokens ==
  connected_ => get_ups_status = Spaced(TokensFrom(1, ups_data_.status_flags))

\* C28: usb_transfer_callback touches no TransferContext, semaphore or buffer
\* of a call that has returned: a completion that arrives after the caller
\* timed out and released them is dropped without a read or a write.
C28_NoTouchAfterReturn ==
  ( /\ last.kind = "late_completion"
    /\ transfer_.pc = "returned"
    /\ transfer_.call \in {"usb_transfer_sync", "hid_get_report", "hid_set_report"} )
  => last.outcome = "ignored"

----------------------------------------------------------------------------
\* The tasks that use the USB device side by side.

MutexCalls == {"usb_write", "usb_read"}
HidCalls == {"hid_get_report", "hid_set_report"}
Callers == {"loop", "nut_server"}
\* the main loop polls through every call; the NUT server task writes the
\* reports of the instant commands
CallsOf(task) ==
  IF task = "loop" THEN MutexCalls \cup HidCalls ELSE {"usb_write", "hid_set_report"}

TasksUnchanged ==
  UNCHANGED <<nutVars, coreVars, transfer_, consecutive_failures_, last_successful_read_,
              component_failed, detect_failures, protocol_error_limiter_, admitted,
              vendor_registry, fallback_registry, lockVars>>

\* usb_write / usb_read: xSemaphoreTake(usb_mutex_) succeeds
MutexTake(task, call) ==
  /\ call \in CallsOf(task)
  /\ task_call[task].pc = "idle"
  /\ usb_mutex_ = "free"
  /\ usb_mutex_' = task
  /\ task_call' = [task_call EXCEPT ![task] = [call |-> call, pc |-> "locked"]]
  /\ last' = Obs("mutex_take")
  /\ UNCHANGED <<device_connected_, usb_device_>>
  /\ TasksUnchanged

\* usb_write / usb_read under the mutex: the connection check, then
\* usb_transfer_sync
LockedSubmit(task) ==
  /\ task_call[task].pc = "locked"
  /\ IF device_connected_
     THEN /\ task_call' = [task_call EXCEPT ![task].pc = "in_flight"]
          /\ usb_mutex_' = usb_mutex_
     ELSE /\ task_call' = [task_call EXCEPT ![task] = NoCall]
          /\ usb_mutex_' = "free"
  /\ last' = Obs("locked_submit")
  /\ UNCHANGED <<device_connected_, usb_device_>>
  /\ TasksUnchanged

\* hid_get_report / hid_set_report entered by a task: the arguments are
\* checked and the control transfer is submitted; usb_mutex_ is not taken
HidCall(task, call) ==
  /\ call \in CallsOf(task)
  /\ task_call[task].pc = "idle"
  /\ device_connected_ /\ usb_device_.dev_hdl
  /\ usb_mutex_' = usb_mutex_
  /\ task_call' = [task_call EXCEPT ![task] = [call |-> call, pc |-> "in_flight"]]
  /\ last' = Obs("hid_call")
  /\ UNCHANGED <<device_connected_, usb_device_>>
  /\ TasksUnchanged

\* the transfer of a task ends, completed or timed out, and the call returns
TransferReturn(task) ==
  /\ task_call[task].pc = "in_flight"
  /\ task_call' = [task_call EXCEPT ![task] = NoCall]
  /\ usb_mutex_' = IF usb_mutex_ = task THEN "free" ELSE usb_mutex_
  /\ last' = Obs("transfer_return")
  /\ UNCHANGED <<device_connected_, usb_device_>>
  /\ TasksUnchanged

\* usb_device_enumerate, from update() while not connected or from the
\* NEW_DEV event: the UPS is found and opened, the record filled in
EnumerateFound(task) ==
  /\ task \in {"loop", "usb_client"}
  /\ task_call[task].pc = "idle"
  /\ task = "loop" => ~connected_
  /\ task_call' = [task_call EXCEPT ![task] =
                     [call |-> "usb_device_enumerate", pc |-> "enumerating"]]
  /\ usb_device_' = [usb_device_ EXCEPT !.dev_hdl = TRUE]
  /\ last' = Obs("enumerate")
  /\ UNCHANGED <<device_connected_, usb_mutex_>>
  /\ TasksUnchanged

\* usb_device_enumerate past usb_claim_interface and usb_get_endpoints
EnumerateDone(task, ok) ==
  /\ task_call[task].pc = "enumerating"
  /\ task_call' = [task_call EXCEPT ![task] = NoCall]
  /\ IF ok
     THEN /\ device_connected_' = TRUE
          /\ usb_device_' = [usb_device_ EXCEPT !.ep_in = TRUE]
     ELSE /\ device_connected_' = device_connected_
          /\ usb_device_' = [usb_device_ EXCEPT !.dev_hdl = FALSE]
  /\ last' = Obs("enumerated")
  /\ UNCHANGED usb_mutex_
  /\ TasksUnchanged

\* the DEV_GONE event handled by the USB client task
DevGoneEvent ==
  /\ task_call["usb_client"].pc = "idle"
  /\ DevGone

\* the core loses the connection (communication timeout), after which
\* update() enumerates again
CoreDisconnects ==
  /\ task_call["loop"].pc = "idle"
  /\ connected_
  /\ connected_' = FALSE
  /\ last' = Obs("core")
  /\ UNCHANGED <<nutVars, ups_data_, active_protocol_, sensors_, usbVars>>

NextTasks ==
  \/ \E task \in Callers, call \in MutexCalls : MutexTake(task, call)
  \/ \E task \in Callers : LockedSubmit(task)
  \/ \E task \in Callers, call \in HidCalls : HidCall(task, call)
  \/ \E task \in Callers : TransferReturn(task)
  \/ \E task \in Tasks : EnumerateFound(task)
  \/ \E task \in Tasks, ok \in BOOLEAN : EnumerateDone(task, ok)
  \/ DevGoneEvent
  \/ CoreDisconnects

SpecTasks == InitTransfer /\ [][NextTasks]_vars

\* C29: no two transfers are in flight at the same time, whichever tasks
\* issued them through usb_write, usb_read, hid_get_report or hid_set_report.
C29_OneTransferInFlight ==
  Cardinality({t \in Tasks : task_call[t].pc = "in_flight"}) <= 1

\* the task that takes a step
Actor ==
  IF task_call' = task_call THEN "usb_client"
  ELSE CHOOSE t \in Tasks : task_call'[t] # task_call[t]

\* C30: the device record (handle, endpoints, connected flag) is modified by
\* a task only while no other task is enumerating or has a transfer in flight.
C30_DeviceRecordExclusive ==
  [][ ( usb_device_' # usb_device_ \/ device_connected_' # device_connected_ ) =>
        \A t \in Tasks \ {Actor} : task_call[t].pc \notin {"in_flight", "enumerating"} ]_vars

----------------------------------------------------------------------------
(* The shared UPS data record, data_mutex_ and the mutex of the asynchronous
   cache. update() runs in the main loop, process_cached_data in the USB client
   task and get_ups_data, for the NUT server, in the server task. Every
   function is split at the statements that take or release a mutex.
   std::lock_guard releases at the end of its block on every path. *)

\* the statements at which a task waits for data_mutex_, and the statement it
\* goes on with when it has it
DataLockPcs == {"cache_data_lock", "copy_lock", "store_lock", "sensors_lock", "get_lock"}
AfterDataLock(pc) ==
  CASE pc = "cache_data_lock" -> "cache_copy"
    [] pc = "copy_lock" -> "copy"
    [] pc = "store_lock" -> "store"
    [] pc = "sensors_lock" -> "sensors_copy"
    [] pc = "get_lock" -> "get_copy"

\* a decoder found by detect_ups_protocol; a record the asynchronous read of
\* the decoder leaves
LockProtocols == {"PROTOCOL_APC_HID"}
LockAnswers == {NoAnswers, [NoAnswers EXCEPT !.summary = <<85, 35, 0>>]}
CacheAnswers == {[NoAnswers EXCEPT !.summary = <<200, 0, 0>>, !.status = <<5>>]}

Goto(t, fn, pc) == [task_step EXCEPT ![t].fn = fn, ![t].pc = pc]

LocksFrame ==
  UNCHANGED <<nutVars, device_connected_, usb_device_, transfer_, component_failed,
              detect_failures, admitted, vendor_registry, fallback_registry,
              usb_mutex_, task_call, clients_mutex_, server_running_,
              server_task_handle_>>

\* update() entered while not connected: detect_ups_protocol finds a decoder
\* and writes ups_data_.detected_protocol; data_mutex_ is not taken
UpdateDetects(p) ==
  /\ task_step["loop"].pc = "idle"
  /\ ~connected_
  /\ active_protocol_' = p
  /\ ups_data_' = [ups_data_ EXCEPT !.detected_protocol = p]
  /\ connected_' = TRUE
  /\ task_step' = Goto("loop", "update", "cache_lock")
  /\ last' = Obs("detect_ups_protocol")
  /\ UNCHANGED <<sensors_, consecutive_failures_, last_successful_read_,
                 protocol_error_limiter_, data_mutex_, ups_data_cache_>>
  /\ LocksFrame

\* update() entered while connected
UpdateEnter ==
  /\ task_step["loop"].pc = "idle"
  /\ connected_
  /\ task_step' = Goto("loop", "update", "cache_lock")
  /\ last' = Obs("step")
  /\ UNCHANGED <<coreVars, consecutive_failures_, last_successful_read_,
                 protocol_error_limiter_, data_mutex_, ups_data_cache_>>
  /\ LocksFrame

\* the USB client task, after usb_host_client_handle_events, calls
\* process_cached_data
ProcessCachedDataEnter ==
  /\ task_step["usb_client"].pc = "idle"
  /\ task_step' = Goto("usb_client", "process_cached_data", "cache_lock")
  /\ last' = Obs("step")
  /\ UNCHANGED <<coreVars, consecutive_failures_, last_successful_read_,
                 protocol_error_limiter_, data_mutex_, ups_data_cache_>>
  /\ LocksFrame

\* the NUT server task calls UpsHidComponent::get_ups_data: get_ups_var does so
\* after has_ups_data() found the core connected
GetUpsDataEnter ==
  /\ task_step["nut_server"].pc = "idle"
  /\ connected_
  /\ task_step' = Goto("nut_server", "get_ups_data", "get_lock")
  /\ last' = Obs("step")
  /\ UNCHANGED <<coreVars, consecutive_failures_, last_successful_read_,
                 protocol_error_limiter_, data_mutex_, ups_data_cache_>>
  /\ LocksFrame

\* std::lock_guard cache_lock(ups_data_cache_.mutex): the task goes on when the
\* mutex is free
CacheLock(t) ==
  /\ task_step[t].pc = "cache_lock"
  /\ ups_data_cache_.mutex = "free"
  /\ ups_data_cache_' = [ups_data_cache_ EXCEPT !.mutex = t]
  /\ task_step' = [task_step EXCEPT ![t].pc = "cache_check"]
  /\ last' = Obs("step")
  /\ UNCHANGED <<coreVars, consecutive_failures_, last_successful_read_,
                 protocol_error_limiter_, data_mutex_>>
  /\ LocksFrame

\* if (ups_data_cache_.data_valid): with nothing cached the block ends and the
\* cache mutex is released; update() goes on to read_ups_data
CacheCheck(t) ==
  /\ task_step[t].pc = "cache_check"
  /\ IF ups_data_cache_.data_valid
     THEN /\ task_step' = [task_step EXCEPT ![t].pc = "cache_data_lock"]
          /\ ups_data_cache_' = ups_data_cache_
     ELSE /\ ups_data_cache_' = [ups_data_cache_ EXCEPT !.mutex = "free"]
          /\ task_step' = IF t = "loop" THEN Goto(t, "read_ups_data", "copy_lock")
                          ELSE [task_step EXCEPT ![t] = NoStep]
  /\ last' = Obs("step")
  /\ UNCHANGED <<coreVars, consecutive_failures_, last_successful_read_,
                 protocol_error_limiter_, data_mutex_>>
  /\ LocksFrame

\* std::lock_guard lock(data_mutex_)
DataLock(t) ==
  /\ task_step[t].pc \in DataLockPcs
  /\ data_mutex_ = "free"
  /\ data_mutex_' = t
  /\ task_step' = [task_step EXCEPT ![t].pc = AfterDataLock(@)]
  /\ last' = Obs("step")
  /\ UNCHANGED <<coreVars, consecutive_failures_, last_successful_read_,
                 protocol_error_limiter_, ups_data_cache_>>
  /\ LocksFrame

\* an inner block that ends without releasing data_mutex_
CacheCopy_kept(t) ==
  /\ task_step[t].pc = "cache_copy"
  /\ ups_data_' = ups_data_cache_.data
  /\ data_mutex_' = data_mutex_
  /\ task_step' = [task_step EXCEPT ![t].pc = "cache_done"]
  /\ last' = Obs("step")
  /\ UNCHANGED <<connected_, active_protocol_, sensors_, consecutive_failures_,
                 last_successful_read_, protocol_error_limiter_, ups_data_cache_>>
  /\ LocksFrame

\* ups_data_ = ups_data_cache_.data under both mutexes; the inner block ends
\* and data_mutex_ is released
CacheCopy(t) ==
  /\ task_step[t].pc = "cache_copy"
  /\ ups_data_' = ups_data_cache_.data
  /\ data_mutex_' = "free"
  /\ task_step' = [task_step EXCEPT ![t].pc = "cache_done"]
  /\ last' = Obs("step")
  /\ UNCHANGED <<connected_, active_protocol_, sensors_, consecutive_failures_,
                 last_successful_read_, protocol_error_limiter_, ups_data_cache_>>
  /\ LocksFrame

\* the cache is marked processed and the outer block ends: the cache mutex is
\* released. update() notes the successful read and goes on to update_sensors
CacheDone(t) ==
  /\ task_step[t].pc = "cache_done"
  /\ ups_data_cache_' = [ups_data_cache_ EXCEPT !.data_valid = FALSE, !.mutex = "free"]
  /\ IF t = "loop"
     THEN /\ last_successful_read_' = clock
          /\ consecutive_failures_' = 0
          /\ task_step' = Goto(t, "update_sensors", "sensors_lock")
     ELSE /\ UNCHANGED <<last_successful_read_, consecutive_failures_>>
          /\ task_step' = [task_step EXCEPT ![t] = NoStep]
  /\ last' = Obs("step")
  /\ UNCHANGED <<coreVars, protocol_error_limiter_, data_mutex_>>
  /\ LocksFrame

\* temp_data = ups_data_, local_data = ups_data_ or the returned copy of
\* get_ups_data, made under data_mutex_; the block ends and it is released
DataCopy(t) ==
  /\ task_step[t].pc \in {"copy", "sensors_copy", "get_copy"}
  /\ data_mutex_' = "free"
  /\ LET pc == task_step[t].pc
     IN  /\ task_step' =
              IF pc = "copy"
              THEN [task_step EXCEPT ![t].pc = "decode", ![t].local = ups_data_]
              ELSE [task_step EXCEPT ![t] = NoStep]
         /\ sensors_' = IF pc = "sensors_copy" THEN update_sensors(ups_data_, sensors_)
                        ELSE sensors_
         /\ last' = Obs("data_copy")
  /\ UNCHANGED <<connected_, ups_data_, active_protocol_, consecutive_failures_,
                 last_successful_read_, protocol_error_limiter_, ups_data_cache_>>
  /\ LocksFrame

\* read_ups_data: active_protocol_->read_data(temp_data) with no mutex held;
\* the copy is stored only when the decoder succeeds and the copy is valid
Decode(answers) ==
  /\ task_step["loop"].pc = "decode"
  /\ answers.battery # << >> => active_protocol_ = "PROTOCOL_GENERIC_HID"
  /\ LET r == KeepIfValid(read_data(answers, task_step["loop"].local), ups_data_)
     IN  task_step' = [task_step EXCEPT
                         !["loop"].pc = IF r.ok THEN "store_lock" ELSE "read_failed",
                         !["loop"].local = r.temp_data]
  /\ last' = Obs("step")
  /\ UNCHANGED <<coreVars, consecutive_failures_, last_successful_read_,
                 protocol_error_limiter_, data_mutex_, ups_data_cache_>>
  /\ LocksFrame

\* update() after read_ups_data returned false: the failure is counted, and
\* from the third failure to the fifth detect_ups_protocol runs again; the
\* decoder it finds writes ups_data_.detected_protocol, again without
\* data_mutex_
UpdateReadFailed ==
  /\ task_step["loop"].pc = "read_failed"
  /\ LET failures == consecutive_failures_ + 1
         limited == should_log_error(protocol_error_limiter_, clock)
         detects == failures >= 3 /\ failures <= 5
     IN  /\ failures <= MaxFailures
         /\ limited.limiter.error_count <= MaxEvents
         /\ consecutive_failures_' = failures
         /\ protocol_error_limiter_' = limited.limiter
         /\ ups_data_' = IF detects
                         THEN [ups_data_ EXCEPT !.detected_protocol = active_protocol_]
                         ELSE ups_data_
         /\ last' = Obs(IF detects THEN "detect_ups_protocol" ELSE "step")
  /\ task_step' = Goto("loop", "update_sensors", "sensors_lock")
  /\ UNCHANGED <<connected_, active_protocol_, sensors_, last_successful_read_,
                 data_mutex_, ups_data_cache_>>
  /\ LocksFrame

\* read_ups_data: ups_data_ = temp_data under data_mutex_, and update() notes
\* the successful read
DataStore ==
  /\ task_step["loop"].pc = "store"
  /\ ups_data_' = task_step["loop"].local
  /\ data_mutex_' = "free"
  /\ last_successful_read_' = clock
  /\ consecutive_failures_' = 0
  /\ task_step' = Goto("loop", "update_sensors", "sensors_lock")
  /\ last' = Obs("step")
  /\ UNCHANGED <<connected_, active_protocol_, sensors_, protocol_error_limiter_,
                 ups_data_cache_>>
  /\ LocksFrame

\* the asynchronous read the cache is kept for: it stores the record it decoded
\* and marks the cache valid under the cache mutex
CacheFill(answers) ==
  /\ task_step["usb_client"].pc = "idle"
  /\ active_protocol_ \in HidProtocols
  /\ ups_data_cache_.mutex = "free"
  /\ ~ups_data_cache_.data_valid
  /\ answers.battery # << >> => active_protocol_ = "PROTOCOL_GENERIC_HID"
  /\ LET r == read_data(answers, [UpsData EXCEPT !.detected_protocol = active_protocol_])
     IN  /\ r.success /\ is_valid(r.data)
         /\ ups_data_cache_' = [ups_data_cache_ EXCEPT !.data = r.data, !.data_valid = TRUE]
  /\ last' = Obs("step")
  /\ UNCHANGED <<coreVars, consecutive_failures_, last_successful_read_,
                 protocol_error_limiter_, data_mutex_, task_step>>
  /\ LocksFrame

\* the steps of one task
TaskSteps(t) ==
  \/ t = "loop" /\ \E p \in LockProtocols : UpdateDetects(p)
  \/ t = "loop" /\ UpdateEnter
  \/ t = "usb_client" /\ ProcessCachedDataEnter
  \/ t = "nut_server" /\ GetUpsDataEnter
  \/ CacheLock(t)
  \/ CacheCheck(t)
  \/ DataLock(t)
  \/ CacheCopy(t)
  \/ CacheDone(t)
  \/ DataCopy(t)
  \/ t = "loop" /\ \E answers \in LockAnswers : Decode(answers)
  \/ t = "loop" /\ DataStore
  \/ t = "loop" /\ UpdateReadFailed

\* a core that has not detected its UPS yet, every task idle
InitLockSteps ==
  /\ clients_ = [i \in Slots |-> NutClient]
  /\ openSockets = {}
  /\ resetSockets = {}
  /\ list_var = NoListVar
  /\ clock = 0
  /\ loop_now = 0
  /\ loop_pc = "idle"
  /\ password_ = ""
  /\ connected_ = FALSE
  /\ active_protocol_ = "none"
  /\ ups_data_ = UpsData
  /\ sensors_ = NoState
  /\ failed_logins = [i \in Slots |-> 0]
  /\ InitUsb(TRUE)
  /\ last = Obs("init")

NextLocks ==
  \/ \E p \in LockProtocols : UpdateDetects(p)
  \/ UpdateEnter
  \/ ProcessCachedDataEnter
  \/ GetUpsDataEnter
  \/ \E t \in Tasks : CacheLock(t)
  \/ \E t \in Tasks : CacheCheck(t)
  \/ \E t \in Tasks : DataLock(t)
  \/ \E t \in Tasks : CacheCopy(t)
  \/ \E t \in Tasks : CacheDone(t)
  \/ \E t \in Tasks : DataCopy(t)
  \/ \E answers \in LockAnswers : Decode(answers)
  \/ DataStore
  \/ UpdateReadFailed
  \/ \E answers \in CacheAnswers : CacheFill(answers)

SpecLocks == InitLockSteps /\ [][NextLocks]_vars

\* every task that can take a step eventually takes one, and a task waiting
\* for a mutex that is released again and again eventually gets it: a task
\* blocked on a FreeRTOS mutex is queued on it and handed the mutex on release
FairLocks == SpecLocks /\ \A t \in Tasks : SF_vars(TaskSteps(t))

\* the task taking the step, by the statement counter that moves
Stepper == CHOOSE t \in Tasks : task_step'[t] # task_step[t]

\* C31: the shared record is read and written only under data_mutex_: while a
\* task holds the mutex for its by-value copy, no other task changes the
\* record, and every copy is made by the holder of the mutex.
C31_RecordUnderDataMutex ==
  [][ /\ ( ( ups_data_' # ups_data_ \/ last'.kind = "detect_ups_protocol" )
           /\ data_mutex_ # "free" ) => data_mutex_ = Stepper
      /\ last'.kind = "data_copy" => data_mutex_ = Stepper ]_vars

\* a task waits for a mutex another task holds
WaitsForData(t) == task_step[t].pc \in DataLockPcs /\ data_mutex_ \notin {"free", t}
WaitsForCache(t) ==
  task_step[t].pc = "cache_lock" /\ ups_data_cache_.mutex \notin {"free", t}

\* C34: update() and process_cached_data cannot deadlock on the cache mutex and
\* data_mutex_: no task waits for one of them while holding the other against
\* a task that waits the other way round, the cache mutex is never taken by a
\* task that holds data_mutex_, and a mutex that is held is released again.
C34_NoDeadlock ==
  /\ [](\A t, u \in Tasks :
          ~( /\ ups_data_cache_.mutex = t /\ WaitsForData(t) /\ data_mutex_ = u
             /\ WaitsForCache(u) ))
  /\ [][ \A t \in Tasks :
           ups_data_cache_'.mutex = t /\ ups_data_cache_.mutex # t => data_mutex_ # t ]_vars
  /\ (data_mutex_ # "free" ~> data_mutex_ = "free")
  /\ (ups_data_cache_.mutex # "free" ~> ups_data_cache_.mutex = "free")

\* update() holds both mutexes while process_cached_data waits for the cache
\* mutex and get_ups_data for data_mutex_
C34_Witness ==
  /\ task_step["loop"].pc = "cache_copy"
  /\ ups_data_cache_.mutex = "loop" /\ data_mutex_ = "loop"
  /\ WaitsForCache("usb_client")
  /\ WaitsForData("nut_server")

----------------------------------------------------------------------------
(* The client slots and clients_mutex_. server_task runs in the task
   start_server created; loop() and stop_server run in the main loop. Every
   function is split at the statements that take or release the mutex, and the
   loop of server_task over the slots at every slot. *)

ServerFrame ==
  UNCHANGED <<resetSockets, password_, list_var, loop_pc, coreVars, device_connected_,
              usb_device_, transfer_, consecutive_failures_, last_successful_read_,
              component_failed, detect_failures, protocol_error_limiter_, admitted,
              vendor_registry, fallback_registry, usb_mutex_, task_call, data_mutex_,
              ups_data_cache_>>

\* what recv() brings for a slot: nothing yet, the end of the connection, or a line
ServerLines == {<<"HELP">>, <<"LOGOUT">>}

\* the server task is still scheduled
ServerAlive == server_task_handle_ = "running"

\* server_task: while (server_running_), then accept_clients up to accept().
\* Without a connection accept_clients returns and the task goes on to the
\* slots; with one it goes on to take clients_mutex_
ServerAccept(conn) ==
  /\ ServerAlive
  /\ task_step["nut_server"].pc = "idle"
  /\ server_running_
  /\ conn => Fds \ openSockets # {}
  /\ IF conn
     THEN /\ openSockets' = openSockets \cup {NewSocket}
          /\ task_step' = [task_step EXCEPT !["nut_server"] =
                             [@ EXCEPT !.fn = "accept_clients", !.pc = "accept_lock",
                                       !.arg = NewSocket]]
     ELSE /\ openSockets' = openSockets
          /\ task_step' = Goto("nut_server", "server_task", "handle_lock")
  /\ last' = Obs("step")
  /\ UNCHANGED <<clients_, failed_logins, clock, loop_now, clients_mutex_,
                 server_running_, server_task_handle_>>
  /\ ServerFrame

\* server_task: server_running_ is false, the loop ends and the task deletes
\* itself with vTaskDelete(nullptr)
ServerExit ==
  /\ ServerAlive
  /\ task_step["nut_server"].pc = "idle"
  /\ ~server_running_
  /\ server_task_handle_' = "exited"
  /\ last' = Obs("step")
  /\ UNCHANGED <<clients_, openSockets, failed_logins, clock, loop_now, clients_mutex_,
                 server_running_, task_step>>
  /\ ServerFrame

\* std::lock_guard lock(clients_mutex_) in accept_clients, server_task,
\* cleanup_inactive_clients and stop_server: the task goes on when it is free
ClientsLock_unlocked(t) ==
  /\ t = "nut_server" => ServerAlive
  /\ task_step[t].pc \in {"accept_lock", "handle_lock", "cleanup_lock", "stop_lock"}
  /\ clients_mutex_' = clients_mutex_
  /\ task_step' = [task_step EXCEPT ![t] =
       [@ EXCEPT !.pc = CASE @ = "accept_lock" -> "accept_slot"
                          [] @ = "handle_lock" -> "handle"
                          [] @ = "cleanup_lock" -> "cleanup_scan"
                          [] @ = "stop_lock" -> "stop_disconnect",
                 !.arg = IF task_step[t].pc = "handle_lock" THEN 1 ELSE @]]
  /\ last' = Obs("step")
  /\ UNCHANGED <<clients_, openSockets, failed_logins, clock, loop_now,
                 server_running_, server_task_handle_>>
  /\ ServerFrame
ClientsLock(t) ==
  /\ t = "nut_server" => ServerAlive
  /\ task_step[t].pc \in {"accept_lock", "handle_lock", "cleanup_lock", "stop_lock"}
  /\ clients_mutex_ = "free"
  /\ clients_mutex_' = t
  /\ task_step' = [task_step EXCEPT ![t] =
       [@ EXCEPT !.pc = CASE @ = "accept_lock" -> "accept_slot"
                          [] @ = "handle_lock" -> "handle"
                          [] @ = "cleanup_lock" -> "cleanup_scan"
                          [] @ = "stop_lock" -> "stop_disconnect",
                 !.arg = IF task_step[t].pc = "handle_lock" THEN 1 ELSE @]]
  /\ last' = Obs("step")
  /\ UNCHANGED <<clients_, openSockets, failed_logins, clock, loop_now,
                 server_running_, server_task_handle_>>
  /\ ServerFrame

\* accept_clients under the mutex: the first inactive slot takes the
\* connection, or the connection is refused and closed; the mutex is released
\* when the function returns
ServerAcceptSlot ==
  /\ ServerAlive
  /\ task_step["nut_server"].pc = "accept_slot"
  /\ LET fd == task_step["nut_server"].arg
         i == FreeSlot
     IN  IF i # 0
         THEN /\ clients_' = [clients_ EXCEPT ![i] =
                    [@ EXCEPT !.socket_fd = fd, !.state = "CONNECTED",
                              !.last_activity = clock, !.connect_time = clock,
                              !.login_attempts = 0, !.remote_ip = PeerIp(fd)]]
              /\ openSockets' = openSockets
              /\ last' = [Obs("accept") EXCEPT !.slot = i]
         ELSE /\ clients_' = clients_
              /\ openSockets' = openSockets \ {fd}
              /\ last' = [Obs("reject") EXCEPT !.closed = TRUE]
  /\ clients_mutex_' = "free"
  /\ task_step' = [task_step EXCEPT !["nut_server"] =
                     [@ EXCEPT !.fn = "server_task", !.pc = "handle_lock", !.arg = 0]]
  /\ UNCHANGED <<failed_logins, clock, loop_now, server_running_, server_task_handle_>>
  /\ ServerFrame

\* server_task under the mutex: handle_client for the slot the loop has
\* reached, when it is active. line is what recv() brings: << >> for nothing
\* (EWOULDBLOCK), otherwise a command; closed is recv() == 0
ServerHandleSlot(line, closed) ==
  /\ ServerAlive
  /\ task_step["nut_server"].pc = "handle"
  /\ task_step["nut_server"].arg \in Slots
  /\ LET i == task_step["nut_server"].arg
         c == [clients_[i] EXCEPT !.last_activity = clock]
         r == process_command(c, [clients_ EXCEPT ![i] = c], line, TRUE)
     IN  /\ ~is_active(clients_[i]) => line = << >> /\ ~closed
         /\ closed => line = << >>
         /\ IF closed
            THEN /\ clients_' = [clients_ EXCEPT ![i] = NutClient_reset(@)]
                 /\ openSockets' = openSockets \ {clients_[i].socket_fd}
            ELSE IF line = << >>
            THEN UNCHANGED <<clients_, openSockets>>
            ELSE /\ clients_' = [clients_ EXCEPT ![i] = r.c]
                 /\ openSockets' = IF r.closed THEN openSockets \ {clients_[i].socket_fd}
                                   ELSE openSockets
         /\ last' = [Obs("command") EXCEPT !.slot = i, !.line = line, !.closed = closed]
  /\ task_step' = [task_step EXCEPT !["nut_server"].arg = @ + 1]
  /\ UNCHANGED <<failed_logins, clock, loop_now, clients_mutex_, server_running_,
                 server_task_handle_>>
  /\ ServerFrame

\* server_task: the loop over the slots ends, the mutex is released and the
\* task sleeps for 10 ms
ServerHandleDone ==
  /\ ServerAlive
  /\ task_step["nut_server"].pc = "handle"
  /\ task_step["nut_server"].arg \notin Slots
  /\ clients_mutex_' = "free"
  /\ task_step' = [task_step EXCEPT !["nut_server"] = NoStep]
  /\ last' = Obs("step")
  /\ UNCHANGED <<clients_, openSockets, failed_logins, clock, loop_now,
                 server_running_, server_task_handle_>>
  /\ ServerFrame

\* loop(): cleanup_inactive_clients reads millis() and goes on to take the mutex
CleanupEnter ==
  /\ task_step["loop"].pc = "idle"
  /\ loop_now' = clock
  /\ task_step' = Goto("loop", "cleanup_inactive_clients", "cleanup_lock")
  /\ last' = Obs("step")
  /\ UNCHANGED <<clients_, openSockets, failed_logins, clock, clients_mutex_,
                 server_running_, server_task_handle_>>
  /\ ServerFrame

\* cleanup_inactive_clients under the mutex: every slot idle for longer than
\* CLIENT_TIMEOUT_MS is disconnected; the mutex is released on return
CleanupLocked ==
  /\ task_step["loop"].pc = "cleanup_scan"
  /\ clients_' = [i \in Slots |->
                    IF TimedOut(clients_[i], loop_now)
                    THEN NutClient_reset(clients_[i]) ELSE clients_[i]]
  /\ openSockets' = openSockets \
                      {clients_[i].socket_fd : i \in {j \in Slots : TimedOut(clients_[j], loop_now)}}
  /\ failed_logins' = [i \in Slots |->
                         IF TimedOut(clients_[i], loop_now) THEN 0 ELSE failed_logins[i]]
  /\ clients_mutex_' = "free"
  /\ task_step' = [task_step EXCEPT !["loop"] = NoStep]
  /\ last' = [Obs("cleanup") EXCEPT
                !.closed = \E i \in Slots : TimedOut(clients_[i], loop_now)]
  /\ UNCHANGED <<clock, loop_now, server_running_, server_task_handle_>>
  /\ ServerFrame

\* stop_server: shutdown_requested_ and server_running_ are set, then the
\* mutex is taken
StopServer ==
  /\ task_step["loop"].pc = "idle"
  /\ server_running_
  /\ server_running_' = FALSE
  /\ task_step' = Goto("loop", "stop_server", "stop_lock")
  /\ last' = Obs("step")
  /\ UNCHANGED <<clients_, openSockets, failed_logins, clock, loop_now, clients_mutex_,
                 server_task_handle_>>
  /\ ServerFrame

\* stop_server under the mutex: every active client is disconnected; the block
\* ends, the mutex is released and the listening socket is closed
StopDisconnect ==
  /\ task_step["loop"].pc = "stop_disconnect"
  /\ clients_' = [i \in Slots |-> IF is_active(clients_[i])
                                  THEN NutClient_reset(clients_[i]) ELSE clients_[i]]
  /\ openSockets' = openSockets \
                      {clients_[i].socket_fd : i \in {j \in Slots : is_active(clients_[j])}}
  /\ failed_logins' = [i \in Slots |-> IF is_active(clients_[i]) THEN 0
                                       ELSE failed_logins[i]]
  /\ clients_mutex_' = "free"
  /\ task_step' = [task_step EXCEPT !["loop"].pc = "stop_delete"]
  /\ last' = Obs("step")
  /\ UNCHANGED <<clock, loop_now, server_running_, server_task_handle_>>
  /\ ServerFrame

\* what vTaskDelete does with the handle of a task that has deleted itself
StaleDeleteOutcomes == {"ignored", "crash"}

\* stop_server: vTaskDelete(server_task_handle_), wherever the server task is;
\* a mutex the task holds stays held. The handle is not cleared when the task
\* deletes itself, so it may name a task that no longer exists
StopDelete(outcome) ==
  /\ task_step["loop"].pc = "stop_delete"
  /\ server_task_handle_ # "deleted"
  /\ outcome = "crash" => server_task_handle_ = "exited"
  /\ server_task_handle_' = "deleted"
  /\ task_step' = [task_step EXCEPT !["loop"].pc = "stopped"]
  /\ last' = [Obs("stop_delete") EXCEPT !.outcome = outcome]
  /\ UNCHANGED <<clients_, openSockets, failed_logins, clock, loop_now, clients_mutex_,
                 server_running_>>
  /\ ServerFrame

\* time passes
ServerTick ==
  /\ clock < MaxTicks * TickMs
  /\ clock' = clock + TickMs
  /\ last' = Obs("tick")
  /\ UNCHANGED <<clients_, openSockets, failed_logins, loop_now, lockVars>>
  /\ ServerFrame

NextServer ==
  \/ \E conn \in BOOLEAN : ServerAccept(conn)
  \/ ServerExit
  \/ \E t \in {"nut_server", "loop"} : ClientsLock(t)
  \/ ServerAcceptSlot
  \/ \E line \in ServerLines \cup {<< >>}, closed \in BOOLEAN : ServerHandleSlot(line, closed)
  \/ ServerHandleDone
  \/ CleanupEnter
  \/ CleanupLocked
  \/ StopServer
  \/ StopDisconnect
  \/ \E outcome \in StaleDeleteOutcomes : StopDelete(outcome)
  \/ ServerTick

\* setup() has started the server without a password
InitServer ==
  /\ clients_ = [i \in Slots |-> NutClient]
  /\ openSockets = {}
  /\ resetSockets = {}
  /\ list_var = NoListVar
  /\ clock = 0
  /\ loop_now = 0
  /\ loop_pc = "idle"
  /\ password_ = ""
  /\ connected_ = TRUE
  /\ ups_data_ = SimulatedData
  /\ active_protocol_ = "none"
  /\ sensors_ = NoState
  /\ failed_logins = [i \in Slots |-> 0]
  /\ NoUsb
  /\ last = Obs("init")

SpecServer == InitServer /\ [][NextServer]_vars

C33_StopServerClean ==
  /\ [][ ( server_task_handle_' = "deleted" /\ server_task_handle_ = "running" )
           => /\ clients_mutex_ # "nut_server"
              /\ task_step["nut_server"].pc \notin {"accept_slot", "handle"} ]_vars
  /\ []( task_step["loop"].pc = "stopped"
           => /\ clients_mutex_ = "free"
              /\ \A i \in Slots : ~is_active(clients_[i]) )

----------------------------------------------------------------------------
(* detect_ups_protocol as update() calls it again and again while the core is
   not connected. The attached UPS is given by its vendor id and by the
   decoders whose detect() and initialize() succeed on it; both are kept in
   the observation and do not change. should_log_error looks only at the
   difference between millis() and last_error_time, so both are counted from
   the start of the current window of the limiter: after each call the same
   amount is taken off the two. *)

\* the vendor ids that select a list: APC, CyberPower, Tripp Lite, and one that
\* is not in the switch
DetectVendors == {1309, 1892, 2478, 4660}

\* detect_ups_protocol: protocol_attempts for a vendor id, Generic HID always last
protocol_attempts(vid, is_input_only) ==
  ( CASE vid = 1309 -> IF is_input_only THEN <<"PROTOCOL_APC_HID">>
                       ELSE <<"PROTOCOL_APC_HID", "PROTOCOL_APC_SMART">>
      [] vid = 1892 -> <<"PROTOCOL_CYBERPOWER_HID">>
      [] vid = 2478 -> <<"PROTOCOL_GENERIC_HID">>
      [] OTHER -> <<"PROTOCOL_APC_HID", "PROTOCOL_APC_SMART", "PROTOCOL_CYBERPOWER_HID">> )
  \o <<"PROTOCOL_GENERIC_HID">>

\* how long a detection that fails takes, and the time from the end of one
\* update() to the start of the next, in ms
DetectionTimes == {100, 2000}
UpdateGaps == {1000, 10000}

\* detect_ups_protocol: the loop over protocol_attempts from candidate k on.
\* Each pass sleeps 1 ms and asks should_log_error; a refused candidate is
\* skipped, a tried one that fails costs its detection time and 100 ms more
RECURSIVE attempt_loop(_, _, _, _, _, _, _)
attempt_loop(attempts, k, limiter, now, detects, ms, tried) ==
  IF k > Len(attempts) THEN [limiter |-> limiter, now |-> now, found |-> "", tried |-> tried]
  ELSE LET r == should_log_error(limiter, now + 1)
       IN  IF ~r.log
           THEN attempt_loop(attempts, k + 1, r.limiter, now + 1, detects, ms, tried)
           ELSE IF attempts[k] \in detects
           THEN [limiter |-> r.limiter, now |-> now + 1, found |-> attempts[k],
                 tried |-> tried \cup {k}]
           ELSE attempt_loop(attempts, k + 1, r.limiter, now + 1 + ms + 100, detects, ms,
                             tried \cup {k})

\* update() while not connected: detect_ups_protocol runs; when it finds a
\* decoder the core is connected, otherwise update() returns. What update()
\* does after a successful detection is the subject of Update. ms is the time
\* a failing detection takes, gap the time to the next update()
UpdateDetecting(ms, gap) ==
  /\ ~component_failed
  /\ ~connected_
  /\ LET attempts == protocol_attempts(last.vendor_id, ~usb_device_.ep_out)
         r == attempt_loop(attempts, 1, protocol_error_limiter_, clock, last.detects, ms, {})
         start == r.limiter.last_error_time
     IN  /\ connected_' = (r.found # "")
         /\ active_protocol_' = IF r.found # "" THEN r.found ELSE active_protocol_
         /\ ups_data_' = IF r.found # "" THEN [ups_data_ EXCEPT !.detected_protocol = r.found]
                         ELSE ups_data_
         /\ protocol_error_limiter_' = [r.limiter EXCEPT !.last_error_time = 0]
         /\ clock' = r.now + gap - start
         /\ detect_failures' = IF r.found # "" THEN 0
                               ELSE IF detect_failures < MaxFailures THEN detect_failures + 1
                               ELSE detect_failures
         /\ last' = [Obs("detect_ups_protocol") EXCEPT
                       !.vendor_id = last.vendor_id, !.detects = last.detects,
                       !.outcome = r.found, !.handled = Cardinality(r.tried),
                       !.ok = Len(attempts) \in r.tried]
  /\ UNCHANGED <<clients_, openSockets, resetSockets, loop_now, loop_pc, password_,
                 list_var, failed_logins, sensors_, device_connected_, usb_device_,
                 transfer_, consecutive_failures_, last_successful_read_,
                 component_failed, admitted, vendor_registry, fallback_registry,
                 usb_mutex_, task_call, lockVars>>

\* the decoders detect_ups_protocol knows
DetectProtocols ==
  {"PROTOCOL_APC_HID", "PROTOCOL_APC_SMART", "PROTOCOL_CYBERPOWER_HID",
   "PROTOCOL_GENERIC_HID"}

\* a core without a decoder, and an attached UPS that at least one candidate
\* of its list detects
InitDetect ==
  /\ clients_ = [i \in Slots |-> NutClient]
  /\ openSockets = {}
  /\ resetSockets = {}
  /\ list_var = NoListVar
  /\ clock = 0
  /\ loop_now = 0
  /\ loop_pc = "idle"
  /\ password_ = ""
  /\ active_protocol_ = "none"
  /\ connected_ = FALSE
  /\ ups_data_ = UpsData
  /\ sensors_ = NoState
  /\ failed_logins = [i \in Slots |-> 0]
  /\ \E has_out \in BOOLEAN : InitUsb(has_out)
  /\ \E vid \in DetectVendors, detects \in SUBSET DetectProtocols :
        /\ \E k \in DOMAIN protocol_attempts(vid, ~usb_device_.ep_out) :
              protocol_attempts(vid, ~usb_device_.ep_out)[k] \in detects
        /\ last = [Obs("init") EXCEPT !.vendor_id = vid, !.detects = detects]

NextDetect ==
  \E ms \in DetectionTimes, gap \in UpdateGaps : UpdateDetecting(ms, gap)

SpecDetect == InitDetect /\ [][NextDetect]_vars

\* update() is called again as long as the component runs
FairDetect == SpecDetect /\ WF_vars(NextDetect)

\* C35: a core without an active decoder, attached to a UPS that a candidate
\* of its detection list detects, eventually becomes connected.
C35_EventuallyConnected == <>connected_

----------------------------------------------------------------------------
\* C36: a client that is AUTHENTICATED is not disconnected for sending LOGIN
\* again: the login-attempt limit counts failed credential checks only.
C36_AuthenticatedLoginKept ==
  ( /\ last.kind = "command"
    /\ last.pre = "AUTHENTICATED"
    /\ last.line # << >>
    /\ ToUpper(Head(last.line)) = "LOGIN" )
  => ~last.closed

\* The sessions that follow one another in a slot: clients that authenticate,
\* fail to, log out, go away or fall idle
SessionInputs ==
  { [chunk |-> <<l>>, ok |-> TRUE] :
      l \in { <<"LOGIN", "admin", "secret">>, <<"LOGIN", "admin", "wrong">>,
              <<"LOGOUT">> } }

\* setup() of a server with a password configured
InitSessions == Init /\ password_ = SecretPassword

NextSessions ==
  \/ AcceptClients
  \/ \E i \in Slots, inp \in SessionInputs : HandleClientData(i, inp.chunk, inp.ok)
  \/ \E i \in Slots : HandleClientGone(i)
  \/ CleanupReadNow
  \/ CleanupScan
  \/ Tick

SpecSessions == InitSessions /\ [][NextSessions]_vars

\* the fields accept_clients does not write
SessionState(c) ==
  [login_attempts |-> c.login_attempts, username |-> c.username,
   temp_username |-> c.temp_username, temp_password |-> c.temp_password]

CoreSnapshots ==
  { SimulatedData, [SimulatedData EXCEPT !.battery_level = 500, !.load_percent = 900] }

\* read_ups_data on the main loop: the new record stored under data_mutex_,
\* between two get_ups_data() copies of the server task
CoreStore(d) ==
  /\ d # ups_data_
  /\ ups_data_' = d
  /\ last' = Obs("core")
  /\ UNCHANGED <<clients_, openSockets, resetSockets, clock, loop_now, loop_pc, password_,
                 list_var, usbVars, active_protocol_, sensors_, connected_, failed_logins>>

InitListVarCore == InitListVar /\ ups_data_ = SimulatedData

NextListVarCore ==
  \/ ListVarBegin(<<"ups">>)
  \/ ListVarStep
  \/ ListVarEnd
  \/ \E d \in CoreSnapshots : CoreStore(d)

SpecListVarCore == InitListVarCore /\ [][NextListVarCore]_vars

\* the VAR lines of battery.charge and ups.load are those of record d
LinesOf(r, d) ==
  \A k \in DOMAIN r :
    /\ r[k].var = "battery.charge" => r[k].value = ToString(CastInt(d.battery_level))
    /\ r[k].var = "ups.load" => r[k].value = ToString(CastInt(d.load_percent))

\* C38: the VAR lines of a LIST VAR reply are those of one record of the
\* core: battery.charge and ups.load of a reply belong to the same reading.
C38_ListVarOneSnapshot ==
  ( last.kind = "list_var" /\ last.reply \notin {"ERR UNKNOWN-UPS\n", "ERR DATA-STALE\n"} )
    => \E d \in CoreSnapshots : LinesOf(list_var.response, d)

EventGaps == {0, 2500, 2501}

\* should_log_error(protocol_error_limiter_) called ms after the event before:
\* the clock of a state is the time of the most recent event
ShouldLogErrorAfter(ms) ==
  LET now == clock + ms
      r == should_log_error(protocol_error_limiter_, now)
      times == Append(admitted, now)
  IN  /\ now <= MaxEventTime
      /\ r.limiter.error_count <= MaxEvents
      /\ clock' = now
      /\ protocol_error_limiter_' = r.limiter
      /\ admitted' = IF ~r.log THEN admitted
                     ELSE IF Len(times) > MAX_BURST + 1 THEN Tail(times) ELSE times
      /\ last' = [Obs("should_log_error") EXCEPT !.ok = r.log]
      /\ UNCHANGED <<clients_, openSockets, resetSockets, loop_now, loop_pc, password_,
                     list_var, failed_logins, coreVars, device_connected_, usb_device_,
                     transfer_, consecutive_failures_, last_successful_read_,
                     component_failed, detect_failures, vendor_registry,
                     fallback_registry, usb_mutex_, task_call, lockVars>>

NextEvents == \E ms \in EventGaps : ShouldLogErrorAfter(ms)

SpecEvents == InitPoll /\ [][NextEvents]_vars

\* C40: after MAX_BURST events have been counted, an event is admitted only
\* when at least RATE_LIMIT_MS have passed since the event before it, admitted
\* or suppressed.
C40_QuietBeforeAdmission ==
  [][ ( /\ last.kind = "should_log_error"
        /\ protocol_error_limiter_.error_count >= MAX_BURST
        /\ last'.kind = "should_log_error"
        /\ last'.ok )
      => clock' - clock >= RATE_LIMIT_MS ]_vars

=============================================================================
